---- MODULE Spec2Model ----
(***************************************************************************)
(* A model of the Babalang tree-walking evaluator (src/src/interpreter.rs) *)
(* as a small-step state machine: a stack of exec_with activations, one    *)
(* (locals, globals) store per call frame, and the (return_scope,          *)
(* return_value) pair travelling upward while activations unwind.          *)
(***************************************************************************)
EXTENDS Integers, Sequences, FiniteSets, TLC

-----------------------------------------------------------------------------
(* Bounds of the model *)

\* number of top-level instructions of a generated program
MaxProgLen == 5
\* number of nested POWER calls that are followed
MaxDepth == 2
\* number of Reference links followed before the lookup is given up
MaxRefDepth == 3
\* number of instructions of a generated program of References
MaxRefLen == 4
\* number of instructions a generated program of conditions adds to its start
MaxCondLen == 3
\* number of instructions a generated program of values adds to its start
MaxValueLen == 3
\* number of instructions a generated program of groups adds to its start
MaxGroupLen == 5
\* number of instructions a generated program of images adds to its start
MaxImageLen == 4

-----------------------------------------------------------------------------
(* Program constants *)

\* the number of values of a u8, the type of the coordinates of a You
Byte == 256

PRG_SCOPE == 0
NO_BREAK == 1

\* The identifier table of the programs below (token.rs): the reserved words
\* empty, level, image hold 0, 1, 2 and every other word gets the next id in
\* order of first appearance.
Words == <<"empty", "level", "image", "fn", "x", "baba", "keke", "t", "u", "w",
           "cls", "self", "v", "g", "jiji">>

Id(word) == (CHOOSE i \in 1..Len(Words) : Words[i] = word) - 1

None == [t |-> "None"]

-----------------------------------------------------------------------------
(* Objects (object.rs) *)

Empty == [t |-> "Empty", reference_count |-> 0]

You(x, y, dir) == [t |-> "You", reference_count |-> 0, x |-> x, y |-> y, dir |-> dir]

Group(index, data) == [t |-> "Group", reference_count |-> 0, index |-> index, data |-> data]

Reference(pointer) == [t |-> "Reference", reference_count |-> 0, pointer |-> pointer]

Level(identifier, arguments, parameters, callback) ==
    [t |-> "Level", reference_count |-> 0, identifier |-> identifier,
     arguments |-> arguments, parameters |-> parameters, callback |-> callback]

Image(identifier, attribute_pointer, attributes, constructor) ==
    [t |-> "Image", reference_count |-> 0, identifier |-> identifier,
     attribute_pointer |-> attribute_pointer, attributes |-> attributes,
     constructor |-> constructor]

ImageInstance(class, attribute_pointer, attributes) ==
    [t |-> "ImageInstance", reference_count |-> 0, class |-> class,
     attribute_pointer |-> attribute_pointer, attributes |-> attributes]

EMPTY == Empty

LEVEL == Level(1, <<>>, <<>>, <<>>)

-----------------------------------------------------------------------------
(* Instructions (instruction.rs) *)

InitYou(id, float) == [op |-> "InitYou", id |-> id, float |-> float]
InitGroup(id, float) == [op |-> "InitGroup", id |-> id, float |-> float]
Text(id) == [op |-> "Text", id |-> id]
Win(id) == [op |-> "Win", id |-> id]
Defeat(id) == [op |-> "Defeat", id |-> id]
IsValue(id, target, not) == [op |-> "IsValue", id |-> id, target |-> target, not |-> not]
MimicReference(id, target) == [op |-> "MimicReference", id |-> id, target |-> target]
IsEmpty(id) == [op |-> "IsEmpty", id |-> id]
Move(id, not) == [op |-> "Move", id |-> id, not |-> not]
Turn(id, not) == [op |-> "Turn", id |-> id, not |-> not]
IsSum(id, targets, nots) == [op |-> "IsSum", id |-> id, targets |-> targets, nots |-> nots]
HasValue(id, target) == [op |-> "HasValue", id |-> id, target |-> target]
MakeValue(id, target) == [op |-> "MakeValue", id |-> id, target |-> target]
Power(id) == [op |-> "Power", id |-> id]
FearTele(id, target) == [op |-> "FearTele", id |-> id, target |-> target]
FollowAttribute(id, target) == [op |-> "FollowAttribute", id |-> id, target |-> target]
EatValue(id, target) == [op |-> "EatValue", id |-> id, target |-> target]
Word(id) == [op |-> "Word", id |-> id]
Shift(id, not) == [op |-> "Shift", id |-> id, not |-> not]
Sink(id) == [op |-> "Sink", id |-> id]
Swap(id) == [op |-> "Swap", id |-> id]

\* Target (statement.rs 4-7): the nouns and properties a condition can name
NounIdentifier(id) == [kind |-> "Identifier", id |-> id]
NounAll == [kind |-> "All"]
NounEmpty == [kind |-> "Empty"]
NounLevel == [kind |-> "Level"]
NounImage == [kind |-> "Image"]
PropertyRight == [kind |-> "Right"]
PropertyUp == [kind |-> "Up"]
PropertyLeft == [kind |-> "Left"]
PropertyDown == [kind |-> "Down"]

Conditions(cond_type, sign, targets) ==
    [cond_type |-> cond_type, sign |-> sign, targets |-> targets]

Prefixes(prefix, sign) == [prefix |-> prefix, sign |-> sign]

Complex(conditions, prefix, instruction) ==
    [op |-> "Complex", conditions |-> conditions, prefix |-> prefix,
     instruction |-> instruction]

TeleI(identifier, instructions) ==
    [op |-> "Tele", identifier |-> identifier, instructions |-> instructions]

LevelI(float, identifier, arguments, instructions) ==
    [op |-> "Level", float |-> float, identifier |-> identifier,
     arguments |-> arguments, instructions |-> instructions]

ImageI(float, identifier, attributes, constructor) ==
    [op |-> "Image", float |-> float, identifier |-> identifier,
     attributes |-> attributes, constructor |-> constructor]

-----------------------------------------------------------------------------
(* HashMap<usize, Object> *)

EmptyMap == [i \in {} |-> None]

Insert(m, id, obj) == [i \in (DOMAIN m) \cup {id} |-> IF i = id THEN obj ELSE m[i]]

Remove(m, id) == [i \in (DOMAIN m) \ {id} |-> m[i]]

Get(m, id) == IF id \in DOMAIN m THEN m[id] ELSE None

-----------------------------------------------------------------------------
(* Lookups.  A lookup that fails raises ObjectNotDefinedError (the result   *)
(* NotDefined); a lookup that follows more than MaxRefDepth links stands    *)
(* for the unbounded recursion on a cyclic chain (the result Overflow).     *)

NotDefined == [t |-> "NotDefined"]
Overflow == [t |-> "Overflow"]

Failed(o) == o.t \in {"NotDefined", "Overflow"}

LookupError(o) == IF o.t = "Overflow" THEN "StackOverflow" ELSE "ObjectNotDefinedError"

RECURSIVE find_ref_n(_, _, _, _)
find_ref_n(id, locals, globals, fuel) ==
    IF id \in DOMAIN locals THEN
        IF locals[id].t = "Reference" THEN
            IF fuel = 0 THEN Overflow
            ELSE find_ref_n(locals[id].pointer, locals, globals, fuel - 1)
        ELSE locals[id]
    ELSE IF id \in DOMAIN globals THEN
        IF globals[id].t = "Reference" THEN
            IF fuel = 0 THEN Overflow
            ELSE find_ref_n(globals[id].pointer, locals, globals, fuel - 1)
        ELSE globals[id]
    ELSE NotDefined

find_ref(id, locals, globals) == find_ref_n(id, locals, globals, MaxRefDepth)

\* find_value returns a clone of what find_ref borrows
find_value(id, locals, globals) == find_ref_n(id, locals, globals, MaxRefDepth)

\* find_mut_ref yields the slot (map and key) the mutable borrow points at
RECURSIVE find_mut_ref_n(_, _, _, _)
find_mut_ref_n(id, locals, globals, fuel) ==
    IF id \in DOMAIN locals THEN
        IF locals[id].t = "Reference" THEN
            IF fuel = 0 THEN Overflow
            ELSE find_mut_ref_n(locals[id].pointer, locals, globals, fuel - 1)
        ELSE [t |-> "Slot", glob |-> FALSE, id |-> id]
    ELSE IF id \in DOMAIN globals THEN
        IF globals[id].t = "Reference" THEN
            IF fuel = 0 THEN Overflow
            ELSE find_mut_ref_n(globals[id].pointer, locals, globals, fuel - 1)
        ELSE [t |-> "Slot", glob |-> TRUE, id |-> id]
    ELSE NotDefined

find_mut_ref(id, locals, globals) == find_mut_ref_n(id, locals, globals, MaxRefDepth)

\* the object in a slot, and the stores after writing through the borrow
SlotGet(slot, locals, globals) == IF slot.glob THEN globals[slot.id] ELSE locals[slot.id]

SlotPut(slot, obj, locals, globals) ==
    IF slot.glob THEN [locals |-> locals, globals |-> Insert(globals, slot.id, obj)]
    ELSE [locals |-> Insert(locals, slot.id, obj), globals |-> globals]

-----------------------------------------------------------------------------
(* initialize (interpreter.rs 571-594) *)

\* a placement that leaves the local binding of a floating id in place
initialize_keep_local(id, obj, float, locals, globals) ==
    IF float \/ id \in DOMAIN globals
    THEN [locals |-> locals, globals |-> Insert(globals, id, obj)]
    ELSE [locals |-> Insert(locals, id, obj), globals |-> globals]

initialize(id, obj, float, locals, globals) ==
    LET locals1 == IF float /\ id \in DOMAIN locals THEN Remove(locals, id) ELSE locals
        extra_float == IF float THEN TRUE ELSE id \in DOMAIN globals
    IN  IF extra_float
        THEN [locals |-> locals1, globals |-> Insert(globals, id, obj)]
        ELSE [locals |-> Insert(locals1, id, obj), globals |-> globals]

-----------------------------------------------------------------------------
(* exec_simple: the leaf operations.  Each yields the stores after the     *)
(* operation, the pair (return_scope, return_value), the error raised (if  *)
(* any; every error ends the process) and the bytes written.               *)

Res(locals, globals, scope, value) ==
    [locals |-> locals, globals |-> globals, scope |-> scope, value |-> value,
     err |-> "none", out |-> <<>>]

Ok(st) == Res(st.locals, st.globals, NO_BREAK, None)

Err(kind, locals, globals) ==
    [locals |-> locals, globals |-> globals, scope |-> NO_BREAK, value |-> None,
     err |-> kind, out |-> <<>>]

\* Simple::InitYou (605-614)
exec_InitYou(ins, locals, globals) ==
    Ok(initialize(ins.id, You(0, 0, 0), ins.float, locals, globals))

\* Simple::InitGroup (615-623)
exec_InitGroup(ins, locals, globals) ==
    Ok(initialize(ins.id, Group(0, <<>>), ins.float, locals, globals))

\* print_object (1626-1663): the bytes written, and the TypeError that ends it
RECURSIVE print_object(_)
RECURSIVE print_data(_, _)
print_object(obj) ==
    IF obj.t = "You" THEN
        [out |-> << IF obj.dir % 2 = 0 THEN obj.x ELSE obj.y >>, err |-> "none"]
    ELSE IF obj.t = "Group" THEN print_data(obj.data, 1)
    ELSE [out |-> <<>>, err |-> "TypeError"]

print_data(data, k) ==
    IF k > Len(data) THEN [out |-> <<>>, err |-> "none"]
    ELSE LET h == print_object(data[k])
         IN  IF h.err # "none" THEN h
             ELSE LET r == print_data(data, k + 1)
                  IN  [out |-> h.out \o r.out, err |-> r.err]

\* Simple::Text (624-628)
exec_Text(ins, locals, globals) ==
    LET obj == find_ref(ins.id, locals, globals)
    IN  IF Failed(obj) THEN Err(LookupError(obj), locals, globals)
        ELSE LET p == print_object(obj)
             IN  [locals |-> locals, globals |-> globals, scope |-> NO_BREAK,
                  value |-> None, err |-> p.err, out |-> p.out]

\* Simple::Win (673-679): exit(0) when the subject is a You
exec_Win(ins, locals, globals) ==
    LET obj == find_ref(ins.id, locals, globals)
    IN  IF Failed(obj) THEN Err(LookupError(obj), locals, globals)
        ELSE IF obj.t = "You" THEN Err("Win", locals, globals)
        ELSE Res(locals, globals, NO_BREAK, None)

\* Simple::Defeat (680-686): exit(1) when the subject is a You
exec_Defeat(ins, locals, globals) ==
    LET obj == find_ref(ins.id, locals, globals)
    IN  IF Failed(obj) THEN Err(LookupError(obj), locals, globals)
        ELSE IF obj.t = "You" THEN Err("Defeat", locals, globals)
        ELSE Res(locals, globals, NO_BREAK, None)

\* an IS NOT that negates each coordinate of the target into its own
exec_IsValue_y(ins, locals, globals) ==
    LET glob == ins.id \notin DOMAIN locals /\ ins.id \in DOMAIN globals
        maybe_source == IF ins.id \in DOMAIN locals THEN locals[ins.id]
                        ELSE IF ins.id \in DOMAIN globals THEN globals[ins.id]
                        ELSE None
        target == find_ref(ins.target, locals, globals)
    IN  IF Failed(target) THEN Err(LookupError(target), locals, globals)
        ELSE IF maybe_source # None THEN
            IF maybe_source.t = "You" THEN
                IF target.t = "You" THEN
                    LET x == IF ins.not THEN 255 - target.x ELSE target.x
                        y == IF ins.not THEN 255 - target.y ELSE target.y
                        new == You(x, y, maybe_source.dir)
                    IN  IF glob
                        THEN Res(locals, Insert(globals, ins.id, new), NO_BREAK, None)
                        ELSE Res(Insert(locals, ins.id, new), globals, NO_BREAK, None)
                ELSE Err("ObjectAlreadyDefinedError", locals, globals)
            ELSE IF maybe_source.t = "Empty" THEN
                IF glob
                THEN Res(locals, Insert(globals, ins.id, target), NO_BREAK, None)
                ELSE Res(Insert(locals, ins.id, target), globals, NO_BREAK, None)
            ELSE Err("ObjectAlreadyDefinedError", locals, globals)
        ELSE Ok(initialize(ins.id, find_value(ins.target, locals, globals), FALSE,
                           locals, globals))

\* Simple::IsValue (687-757)
exec_IsValue(ins, locals, globals) ==
    LET glob == ins.id \notin DOMAIN locals /\ ins.id \in DOMAIN globals
        maybe_source == IF ins.id \in DOMAIN locals THEN locals[ins.id]
                        ELSE IF ins.id \in DOMAIN globals THEN globals[ins.id]
                        ELSE None
        target == find_ref(ins.target, locals, globals)
    IN  IF Failed(target) THEN Err(LookupError(target), locals, globals)
        ELSE IF maybe_source # None THEN
            IF maybe_source.t = "You" THEN
                IF target.t = "You" THEN
                    LET x == IF ins.not THEN 255 - target.x ELSE target.x
                        y == IF ins.not THEN 255 - target.x ELSE target.y
                        new == You(x, y, maybe_source.dir)
                    IN  IF glob
                        THEN Res(locals, Insert(globals, ins.id, new), NO_BREAK, None)
                        ELSE Res(Insert(locals, ins.id, new), globals, NO_BREAK, None)
                ELSE Err("ObjectAlreadyDefinedError", locals, globals)
            ELSE IF maybe_source.t = "Empty" THEN
                IF glob
                THEN Res(locals, Insert(globals, ins.id, target), NO_BREAK, None)
                ELSE Res(Insert(locals, ins.id, target), globals, NO_BREAK, None)
            ELSE Err("ObjectAlreadyDefinedError", locals, globals)
        ELSE Ok(initialize(ins.id, find_value(ins.target, locals, globals), FALSE,
                           locals, globals))

\* Simple::MimicReference (758-768)
exec_MimicReference(ins, locals, globals) ==
    LET slot == find_mut_ref(ins.target, locals, globals)
    IN  IF Failed(slot) THEN Err(LookupError(slot), locals, globals)
        ELSE LET obj == SlotGet(slot, locals, globals)
                 st == SlotPut(slot, [obj EXCEPT !.reference_count = @ + 1],
                               locals, globals)
             IN  Ok(initialize(ins.id, Reference(ins.target), FALSE,
                               st.locals, st.globals))

\* Simple::IsEmpty (769-788)
exec_IsEmpty(ins, locals, globals) ==
    IF ins.id \in DOMAIN locals THEN
        Res(Insert(locals, ins.id, Empty), globals, NO_BREAK, None)
    ELSE IF ins.id \in DOMAIN globals THEN
        Res(locals, Insert(globals, ins.id, Empty), NO_BREAK, None)
    ELSE Res(Insert(locals, ins.id, Empty), globals, NO_BREAK, None)

\* a MOVE that stops at the ends of the axis
YouMove_saturating(you, not) ==
    LET inc(v) == IF v = 255 THEN 255 ELSE v + 1
        dec(v) == IF v = 0 THEN 0 ELSE v - 1
    IN  CASE you.dir = 0 -> [you EXCEPT !.x = IF not THEN dec(@) ELSE inc(@)]
          [] you.dir = 1 -> [you EXCEPT !.y = IF not THEN dec(@) ELSE inc(@)]
          [] you.dir = 2 -> [you EXCEPT !.x = IF not THEN inc(@) ELSE dec(@)]
          [] you.dir = 3 -> [you EXCEPT !.y = IF not THEN inc(@) ELSE dec(@)]
          [] OTHER -> you

\* the match on you.dir of Simple::Move (901-976), on u8 coordinates
YouMove(you, not) ==
    LET inc(v) == IF v = 255 THEN 0 ELSE v + 1
        dec(v) == IF v = 0 THEN 255 ELSE v - 1
    IN  CASE you.dir = 0 -> [you EXCEPT !.x = IF not THEN dec(@) ELSE inc(@)]
          [] you.dir = 1 -> [you EXCEPT !.y = IF not THEN dec(@) ELSE inc(@)]
          [] you.dir = 2 -> [you EXCEPT !.x = IF not THEN inc(@) ELSE dec(@)]
          [] you.dir = 3 -> [you EXCEPT !.y = IF not THEN inc(@) ELSE dec(@)]
          [] OTHER -> you

\* Simple::Move (894-986)
exec_Move(ins, locals, globals) ==
    LET slot == find_mut_ref(ins.id, locals, globals)
    IN  IF Failed(slot) THEN Err(LookupError(slot), locals, globals)
        ELSE LET obj == SlotGet(slot, locals, globals)
             IN  IF obj.t = "You"
                 THEN Ok(SlotPut(slot, YouMove(obj, ins.not), locals, globals))
                 ELSE Err("TypeError", locals, globals)

\* the sum of the x (or y) of every You of a map, as the loops over
\* locals.values() and globals.values() take it (825-848)
RECURSIVE all_sum(_, _, _)
all_sum(m, ids, field) ==
    IF ids = {} THEN 0
    ELSE LET i == CHOOSE j \in ids : TRUE
             v == IF m[i].t = "You" THEN (IF field = "x" THEN m[i].x ELSE m[i].y) ELSE 0
         IN  (v + all_sum(m, ids \ {i}, field)) % Byte

wrapping_add(a, b) == (a + b) % Byte
wrapping_sub(a, b) == (a - b) % Byte

\* a sum that adds an ALL target when its sign is false, as it adds an
\* identifier
\* the sums of IsSum so far, or the error thrown on the way
SumErr(err) == [err |-> err, x |-> 0, y |-> 0]

RECURSIVE sum_targets_same_sign(_, _, _, _, _, _)
sum_targets_same_sign(ins, locals, globals, k, sum_x, sum_y) ==
    IF k > Len(ins.targets) \/ k > Len(ins.nots) THEN [err |-> "none", x |-> sum_x, y |-> sum_y]
    ELSE LET target == ins.targets[k]
             not == ins.nots[k]
         IN  IF target.kind = "Identifier" THEN
                 LET target_obj == find_value(target.id, locals, globals)
                 IN  IF Failed(target_obj) THEN SumErr(LookupError(target_obj))
                     ELSE IF target_obj.t # "You" THEN SumErr("ObjectAlreadyDefinedError")
                     ELSE sum_targets_same_sign(ins, locals, globals, k + 1,
                              IF not THEN wrapping_sub(sum_x, target_obj.x)
                              ELSE wrapping_add(sum_x, target_obj.x),
                              IF not THEN wrapping_sub(sum_y, target_obj.y)
                              ELSE wrapping_add(sum_y, target_obj.y))
             ELSE IF target.kind = "All" THEN
                 LET all_x == wrapping_add(all_sum(locals, DOMAIN locals, "x"),
                                           all_sum(globals, DOMAIN globals, "x"))
                     all_y == wrapping_add(all_sum(locals, DOMAIN locals, "y"),
                                           all_sum(globals, DOMAIN globals, "y"))
                 IN  sum_targets_same_sign(ins, locals, globals, k + 1,
                         IF not THEN wrapping_sub(sum_x, all_x)
                         ELSE wrapping_add(sum_x, all_x),
                         IF not THEN wrapping_sub(sum_y, all_y)
                         ELSE wrapping_add(sum_y, all_y))
             ELSE SumErr("RuntimeError")

\* `for (target, not) in targets.iter().zip(nots.iter())` (792-861): the sums,
\* or the error thrown
RECURSIVE sum_targets(_, _, _, _, _, _)
sum_targets(ins, locals, globals, k, sum_x, sum_y) ==
    IF k > Len(ins.targets) \/ k > Len(ins.nots) THEN [err |-> "none", x |-> sum_x, y |-> sum_y]
    ELSE LET target == ins.targets[k]
             not == ins.nots[k]
         IN  IF target.kind = "Identifier" THEN
                 LET target_obj == find_value(target.id, locals, globals)
                 IN  IF Failed(target_obj) THEN SumErr(LookupError(target_obj))
                     ELSE IF target_obj.t # "You" THEN SumErr("ObjectAlreadyDefinedError")
                     ELSE sum_targets(ins, locals, globals, k + 1,
                              IF not THEN wrapping_sub(sum_x, target_obj.x)
                              ELSE wrapping_add(sum_x, target_obj.x),
                              IF not THEN wrapping_sub(sum_y, target_obj.y)
                              ELSE wrapping_add(sum_y, target_obj.y))
             ELSE IF target.kind = "All" THEN
                 LET all_x == wrapping_add(all_sum(locals, DOMAIN locals, "x"),
                                           all_sum(globals, DOMAIN globals, "x"))
                     all_y == wrapping_add(all_sum(locals, DOMAIN locals, "y"),
                                           all_sum(globals, DOMAIN globals, "y"))
                 IN  sum_targets(ins, locals, globals, k + 1,
                         IF not THEN wrapping_add(sum_x, all_x)
                         ELSE wrapping_sub(sum_x, all_x),
                         IF not THEN wrapping_add(sum_y, all_y)
                         ELSE wrapping_sub(sum_y, all_y))
             ELSE SumErr("RuntimeError")

\* Simple::IsSum (790-893)
exec_IsSum(ins, locals, globals) ==
    LET sum == sum_targets(ins, locals, globals, 1, 0, 0)
        put(obj) == IF obj.t = "You" THEN [obj EXCEPT !.x = sum.x, !.y = sum.y] ELSE obj
    IN  IF sum.err # "none" THEN Err(sum.err, locals, globals)
        ELSE IF ins.id \in DOMAIN locals THEN
            Res(Insert(locals, ins.id, put(locals[ins.id])), globals, NO_BREAK, None)
        ELSE IF ins.id \in DOMAIN globals THEN
            Res(locals, Insert(globals, ins.id, put(globals[ins.id])), NO_BREAK, None)
        ELSE Ok(initialize(ins.id, You(sum.x, sum.y, 0), FALSE, locals, globals))

\* Simple::Turn (987-1015)
exec_Turn(ins, locals, globals) ==
    LET slot == find_mut_ref(ins.id, locals, globals)
        turn(dir) == IF ins.not THEN (IF dir = 0 THEN 3 ELSE dir - 1)
                     ELSE (IF dir = 3 THEN 0 ELSE dir + 1)
    IN  IF Failed(slot) THEN Err(LookupError(slot), locals, globals)
        ELSE LET obj == SlotGet(slot, locals, globals)
             IN  IF obj.t = "You"
                 THEN Ok(SlotPut(slot, [obj EXCEPT !.dir = turn(@)], locals, globals))
                 ELSE Err("TypeError", locals, globals)

\* a HAS that takes no more parameters than the Level has arguments
exec_HasValue_bounded(ins, locals, globals) ==
    LET maybe_target == find_value(ins.target, locals, globals)
        slot == find_mut_ref(ins.id, locals, globals)
    IN  IF Failed(maybe_target) THEN Err(LookupError(maybe_target), locals, globals)
        ELSE IF Failed(slot) THEN Err(LookupError(slot), locals, globals)
        ELSE LET obj == SlotGet(slot, locals, globals)
             IN  IF obj.t = "Level" /\ Len(obj.parameters) < Len(obj.arguments) THEN
                     Ok(SlotPut(slot, [obj EXCEPT !.parameters = Append(@, maybe_target)],
                                locals, globals))
                 ELSE Res(locals, globals, NO_BREAK, None)

\* Simple::HasValue (1233-1252)
exec_HasValue(ins, locals, globals) ==
    LET maybe_target == find_value(ins.target, locals, globals)
        slot == find_mut_ref(ins.id, locals, globals)
    IN  IF Failed(maybe_target) THEN Err(LookupError(maybe_target), locals, globals)
        ELSE IF Failed(slot) THEN Err(LookupError(slot), locals, globals)
        ELSE LET obj == SlotGet(slot, locals, globals)
             IN  IF obj.t = "Group" THEN
                     Ok(SlotPut(slot, [obj EXCEPT !.data = Append(@, maybe_target)],
                                locals, globals))
                 ELSE IF obj.t = "Level" THEN
                     Ok(SlotPut(slot, [obj EXCEPT !.parameters = Append(@, maybe_target)],
                                locals, globals))
                 ELSE IF obj.t = "Image" THEN
                     Ok(SlotPut(slot,
                                [obj EXCEPT !.constructor.parameters = Append(@, maybe_target)],
                                locals, globals))
                 ELSE Res(locals, globals, NO_BREAK, None)

\* Simple::MakeValue (1253-1313)
exec_MakeValue(ins, locals, globals) ==
    LET src == find_ref(ins.id, locals, globals)
        slot == find_mut_ref(ins.id, locals, globals)
    IN  IF Failed(src) THEN Err(LookupError(src), locals, globals)
        ELSE IF src.t = "Group" THEN
            IF Len(src.data) = 0 THEN Res(locals, globals, NO_BREAK, None)
            ELSE LET st == SlotPut(slot,
                                   [src EXCEPT !.data = SubSeq(@, 1, Len(@) - 1)],
                                   locals, globals)
                 IN  Res(Insert(st.locals, ins.target, src.data[Len(src.data)]),
                         st.globals, NO_BREAK, None)
        ELSE IF src.t = "Level" THEN
            LET obj == find_value(ins.target, locals, globals)
            IN  IF Failed(obj) THEN Err(LookupError(obj), locals, globals)
                ELSE Res(locals, globals, ins.id, obj)
        ELSE IF src.t \in {"Image", "ImageInstance"} THEN
            IF src.attribute_pointer \notin DOMAIN src.attributes
            THEN Err("Panic", locals, globals)
            ELSE LET maybe_attr == src.attributes[src.attribute_pointer]
                 IN  IF maybe_attr = None THEN Res(locals, globals, NO_BREAK, None)
                     ELSE Res(Insert(locals, ins.target, maybe_attr), globals,
                              NO_BREAK, None)
        ELSE Err("TypeError", locals, globals)

\* Simple::FearTele (1411-1417)
exec_FearTele(ins, locals, globals) ==
    LET obj == find_ref(ins.id, locals, globals)
    IN  IF Failed(obj) THEN Err(LookupError(obj), locals, globals)
        ELSE Res(locals, globals, ins.target, None)

\* Simple::FollowAttribute (1418-1434)
exec_FollowAttribute(ins, locals, globals) ==
    LET slot == find_mut_ref(ins.id, locals, globals)
    IN  IF Failed(slot) THEN Err(LookupError(slot), locals, globals)
        ELSE LET obj == SlotGet(slot, locals, globals)
             IN  IF obj.t \in {"Image", "ImageInstance"}
                 THEN Ok(SlotPut(slot, [obj EXCEPT !.attribute_pointer = ins.target],
                                 locals, globals))
                 ELSE Err("TypeError", locals, globals)

\* Simple::EatValue (1435-1456)
exec_EatValue(ins, locals, globals) ==
    LET maybe_target == find_value(ins.target, locals, globals)
        slot == find_mut_ref(ins.id, locals, globals)
    IN  IF Failed(maybe_target) THEN Err(LookupError(maybe_target), locals, globals)
        ELSE IF Failed(slot) THEN Err(LookupError(slot), locals, globals)
        ELSE LET obj == SlotGet(slot, locals, globals)
             IN  IF obj.t \in {"Image", "ImageInstance"}
                 THEN Ok(SlotPut(slot,
                                 [obj EXCEPT !.attributes =
                                      Insert(@, obj.attribute_pointer, maybe_target)],
                                 locals, globals))
                 ELSE Err("TypeError", locals, globals)

\* exec_simple (597-1459), every operation but Power, which runs a callee
exec_simple(ins, locals, globals) ==
    CASE ins.op = "InitYou" -> exec_InitYou(ins, locals, globals)
      [] ins.op = "InitGroup" -> exec_InitGroup(ins, locals, globals)
      [] ins.op = "Text" -> exec_Text(ins, locals, globals)
      [] ins.op = "Win" -> exec_Win(ins, locals, globals)
      [] ins.op = "Defeat" -> exec_Defeat(ins, locals, globals)
      [] ins.op = "IsValue" -> exec_IsValue(ins, locals, globals)
      [] ins.op = "MimicReference" -> exec_MimicReference(ins, locals, globals)
      [] ins.op = "IsEmpty" -> exec_IsEmpty(ins, locals, globals)
      [] ins.op = "Move" -> exec_Move(ins, locals, globals)
      [] ins.op = "Turn" -> exec_Turn(ins, locals, globals)
      [] ins.op = "IsSum" -> exec_IsSum(ins, locals, globals)
      [] ins.op = "HasValue" -> exec_HasValue(ins, locals, globals)
      [] ins.op = "MakeValue" -> exec_MakeValue(ins, locals, globals)
      [] ins.op = "FearTele" -> exec_FearTele(ins, locals, globals)
      [] ins.op = "FollowAttribute" -> exec_FollowAttribute(ins, locals, globals)
      [] ins.op = "EatValue" -> exec_EatValue(ins, locals, globals)

SimpleOps == {"InitYou", "InitGroup", "Text", "Win", "Defeat", "IsValue",
              "MimicReference", "IsEmpty", "IsSum", "Move", "Turn", "HasValue",
              "MakeValue",
              "FearTele", "FollowAttribute", "EatValue"}

-----------------------------------------------------------------------------
(* Complex instructions: the conditions and the prefix of exec_with         *)
(* (110-548)                                                                *)

Xor(a, b) == a # b

\* PartialEq of Object and of Type (object.rs 8-126): a You compares by x and
\* y, a Group by its data, a Level by arguments and callback
RECURSIVE type_eq(_, _)
RECURSIVE object_eq(_, _)
option_eq(a, b) == IF a = None \/ b = None THEN a = b ELSE object_eq(a, b)

attributes_eq(a, b) ==
    /\ DOMAIN a = DOMAIN b
    /\ \A k \in DOMAIN a : option_eq(a[k], b[k])

object_eq(a, b) == a.reference_count = b.reference_count /\ type_eq(a, b)

type_eq(a, b) ==
    IF a.t # b.t THEN FALSE
    ELSE CASE a.t = "Empty" -> TRUE
           [] a.t = "Reference" -> a.pointer = b.pointer
           [] a.t = "You" -> a.x = b.x /\ a.y = b.y
           [] a.t = "Group" ->
                /\ Len(a.data) = Len(b.data)
                /\ \A k \in 1..Len(a.data) : object_eq(a.data[k], b.data[k])
           [] a.t = "Level" -> a.arguments = b.arguments /\ a.callback = b.callback
           [] a.t = "Image" ->
                /\ type_eq(a.constructor, b.constructor)
                /\ attributes_eq(a.attributes, b.attributes)
           [] a.t = "ImageInstance" ->
                a.class = b.class /\ attributes_eq(a.attributes, b.attributes)
           [] OTHER -> FALSE

\* an order of You that looks at x whatever self.dir is
you_lt_x(self, other) == self.x < other.x

\* PartialOrd of You (object.rs 48-68): the order on the axis of self.dir
you_lt(self, other) ==
    CASE self.dir = 0 -> self.x < other.x
      [] self.dir = 1 -> self.y < other.y
      [] self.dir = 2 -> other.x < self.x
      [] self.dir = 3 -> other.y < self.y
      [] OTHER -> FALSE

\* PartialOrd of Group (object.rs 82-86)
group_lt(self, other) == Len(self.data) < Len(other.data)

\* is_same_type (1666-1709)
is_same_type(first, other) ==
    IF first.t \in {"You", "Group", "Level", "Image"} THEN other.t = first.t
    ELSE IF first.t = "ImageInstance"
         THEN other.t = "ImageInstance" /\ first.class = other.class
    ELSE FALSE

\* the values of both maps, as `for (_, obj) in locals.iter()` and
\* `for (_, obj) in globals.iter()` visit them
Values(locals, globals) ==
    {locals[i] : i \in DOMAIN locals} \cup {globals[i] : i \in DOMAIN globals}

\* the outcome of one pass of a loop body: "ok" leaves complete alone,
\* "false" clears it, anything else is the error thrown
Clear(cond) == IF cond THEN "false" ELSE "ok"

Passes(results) ==
    IF \E r \in results : r \notin {"ok", "false"}
    THEN CHOOSE r \in results : r \notin {"ok", "false"}
    ELSE IF "false" \in results THEN "false" ELSE "ok"

\* the body of the FACING loops for one object (272-298, 302-353)
facing_object(source, obj, sign) ==
    IF source.t = "You" THEN
        IF obj.t = "You" THEN Clear(~Xor(you_lt(source, obj), sign))
        ELSE "TypeError"
    ELSE IF source.t = "Group" THEN
        IF obj.t = "Group" THEN Clear(~Xor(group_lt(source, obj), sign))
        ELSE "TypeError"
    ELSE "TypeError"

\* Conditional::On (142-181), one target
on_target(target, sign, source, locals, globals) ==
    IF target.kind = "Identifier" THEN
        LET obj == find_ref(target.id, locals, globals)
        IN  IF Failed(obj) THEN LookupError(obj)
            ELSE Clear(~Xor(type_eq(obj, source), sign))
    ELSE IF target.kind = "All" THEN
        IF source.t = "You" THEN
            Clear(\E o \in Values(locals, globals) :
                      o.t = "You" /\ ~Xor(source.x = o.x /\ source.y = o.y, sign))
        ELSE "TypeError"
    ELSE "TypeError"

\* Conditional::Near (182-268), one target
near_target(target, sign, source, locals, globals) ==
    CASE target.kind = "Identifier" ->
            LET obj == find_ref(target.id, locals, globals)
            IN  IF Failed(obj) THEN LookupError(obj)
                ELSE Clear(~Xor(is_same_type(obj, source), sign))
      [] target.kind = "All" ->
            Clear(\E o \in Values(locals, globals) :
                      ~Xor(is_same_type(o, source), sign))
      [] target.kind = "Empty" -> Clear(~Xor(source.t = "Empty", sign))
      [] target.kind = "Level" -> Clear(~Xor(source.t = "Level", sign))
      [] target.kind = "Image" ->
            Clear(~Xor(source.t \in {"Image", "ImageInstance"}, sign))
      [] OTHER -> "TypeError"

\* Conditional::Facing (269-406), one target
facing_target(target, sign, source, locals, globals) ==
    LET dir_is(n) == IF source.t = "You" THEN Clear(~Xor(source.dir = n, sign))
                     ELSE "TypeError"
    IN  CASE target.kind = "Identifier" ->
                LET obj == find_ref(target.id, locals, globals)
                IN  IF Failed(obj) THEN LookupError(obj)
                    ELSE facing_object(source, obj, sign)
          [] target.kind = "All" ->
                Passes({facing_object(source, o, sign) : o \in Values(locals, globals)})
          [] target.kind = "Right" -> dir_is(0)
          [] target.kind = "Up" -> dir_is(1)
          [] target.kind = "Left" -> dir_is(2)
          [] target.kind = "Down" -> dir_is(3)
          [] OTHER -> "TypeError"

\* Conditional::Without (407-459), one target of a Group source
without_target(target, sign, source, locals, globals) ==
    LET contains(obj) == \E k \in 1..Len(source.data) : type_eq(source.data[k], obj)
    IN  IF target.kind = "Identifier" THEN
            LET obj == find_ref(target.id, locals, globals)
            IN  IF Failed(obj) THEN LookupError(obj)
                ELSE Clear(Xor(contains(obj), sign))
        ELSE IF target.kind = "All" THEN
            Clear(\E o \in Values(locals, globals) : Xor(contains(o), sign))
        ELSE "TypeError"

cond_target(conds, target, source, locals, globals) ==
    CASE conds.cond_type = "On" -> on_target(target, conds.sign, source, locals, globals)
      [] conds.cond_type = "Near" ->
            near_target(target, conds.sign, source, locals, globals)
      [] conds.cond_type = "Facing" ->
            facing_target(target, conds.sign, source, locals, globals)
      [] conds.cond_type = "Without" ->
            without_target(target, conds.sign, source, locals, globals)

\* `for target in conds.targets.iter()`: the first error ends the process,
\* otherwise complete is cleared by any target that fails
RECURSIVE cond_targets(_, _, _, _, _, _)
cond_targets(conds, source, locals, globals, k, complete) ==
    IF k > Len(conds.targets) THEN (IF complete THEN "ok" ELSE "false")
    ELSE LET r == cond_target(conds, conds.targets[k], source, locals, globals)
         IN  IF r \notin {"ok", "false"} THEN r
             ELSE cond_targets(conds, source, locals, globals, k + 1,
                               complete /\ r = "ok")

\* match conds.cond_type (140-461): "ok" when complete stays true, "false"
\* when it is cleared, or the error thrown
eval_conditions(conds, source, locals, globals) ==
    IF conds.cond_type = "Without" /\ source.t # "Group" THEN "TypeError"
    ELSE cond_targets(conds, source, locals, globals, 1, TRUE)

eval_prefix(pref, source, complete) ==
    IF pref.prefix = "Lonely" THEN
        CASE source.t = "You" ->
                IF ~Xor(source.x = 0 /\ source.y = 0, pref.sign) THEN FALSE ELSE complete
          [] source.t = "Group" ->
                IF ~Xor(Len(source.data) = 0, pref.sign) THEN FALSE ELSE complete
          [] source.t = "Empty" -> IF pref.sign THEN FALSE ELSE complete
          [] source.t = "Level" -> IF ~pref.sign THEN FALSE ELSE complete
          [] source.t \in {"Image", "ImageInstance"} ->
                LET empty == \A a \in DOMAIN source.attributes : source.attributes[a] = None
                IN  IF ~Xor(empty, pref.sign) THEN FALSE ELSE complete
          [] OTHER -> complete
    ELSE
        LET c1 == IF source.t = "Level"
                     /\ ~Xor(Len(source.arguments) = Len(source.parameters), pref.sign)
                  THEN FALSE ELSE complete
        IN  IF source.t = "Image" THEN
                IF ~Xor(Len(source.constructor.arguments) - 1
                            = Len(source.constructor.parameters), pref.sign)
                THEN FALSE ELSE c1
            ELSE ~pref.sign

\* Instruction::Complex (110-548): the Simple runs only when complete
exec_complex(complex, locals, globals) ==
    LET source == find_ref(complex.instruction.id, locals, globals)
    IN  IF Failed(source) THEN Err(LookupError(source), locals, globals)
        ELSE LET cond == IF complex.conditions = None THEN "ok"
                         ELSE eval_conditions(complex.conditions, source, locals, globals)
                 complete == IF complex.prefix = None THEN cond = "ok"
                             ELSE eval_prefix(complex.prefix, source, cond = "ok")
             IN  IF cond \notin {"ok", "false"} THEN Err(cond, locals, globals)
                 ELSE IF complete THEN exec_simple(complex.instruction, locals, globals)
                 ELSE Res(locals, globals, NO_BREAK, None)

-----------------------------------------------------------------------------
(* Definitions and calls *)

\* a trailer that returns the first formal argument
level_object_args0(level) ==
    Level(level.identifier, level.arguments, <<>>,
          Append(level.instructions,
                 MakeValue(level.identifier,
                           IF level.arguments = <<>> THEN 0 ELSE level.arguments[1])))

\* Instruction::Level (48-61): the object a LEVEL definition stores
level_object(level) ==
    Level(level.identifier, level.arguments, <<>>,
          Append(level.instructions, MakeValue(level.identifier, 0)))

\* Instruction::Image (62-87): the object an IMAGE definition stores
image_object(image) ==
    Image(image.identifier, 0,
          [a \in {image.attributes[k] : k \in 1..Len(image.attributes)} |-> None],
          Level(image.identifier, image.constructor.arguments, <<>>,
                Append(image.constructor.instructions,
                       MakeValue(image.identifier, image.constructor.arguments[1]))))

\* for (arg, param) in arguments.zip(parameters) { new_locals.insert(arg, param) }
RECURSIVE bind_args(_, _, _, _)
bind_args(m, arguments, parameters, k) ==
    IF k > Len(arguments) \/ k > Len(parameters) THEN m
    ELSE bind_args(Insert(m, arguments[k], parameters[k]), arguments, parameters, k + 1)

\* a call that does not compare the counts
power_level_unchecked(level, self_ref, locals) ==
    [err |-> "none",
     locals |-> Insert(bind_args(locals, level.arguments, level.parameters, 1),
                       level.identifier, self_ref),
     callback |-> level.callback]

\* Simple::Power, Level branch (1322-1348): the callee's locals, or ArgumentError
power_level(level, self_ref, locals) ==
    IF Len(level.arguments) = Len(level.parameters)
    THEN [err |-> "none",
          locals |-> Insert(bind_args(locals, level.arguments, level.parameters, 1),
                            level.identifier, self_ref),
          callback |-> level.callback]
    ELSE [err |-> "ArgumentError", locals |-> locals, callback |-> <<>>]

\* a constructor call that binds no instance to self
power_image_no_self(image, locals) ==
    IF Len(image.constructor.arguments) - 1 = Len(image.constructor.parameters)
    THEN [err |-> "none",
          locals |->
              Insert(bind_args(locals, Tail(image.constructor.arguments),
                               image.constructor.parameters, 1),
                     image.identifier, image.constructor),
          callback |-> image.constructor.callback]
    ELSE [err |-> "ArgumentError", locals |-> locals, callback |-> <<>>]

\* Simple::Power, Image branch (1350-1392)
power_image(image, locals) ==
    IF Len(image.constructor.arguments) - 1 = Len(image.constructor.parameters)
    THEN [err |-> "none",
          locals |->
              Insert(Insert(bind_args(locals, Tail(image.constructor.arguments),
                                      image.constructor.parameters, 1),
                            image.identifier, image.constructor),
                     image.constructor.arguments[1],
                     ImageInstance(image.identifier, image.attribute_pointer,
                                   image.attributes)),
          callback |-> image.constructor.callback]
    ELSE [err |-> "ArgumentError", locals |-> locals, callback |-> <<>>]

\* a Power that calls whatever it finds
power_call_any(id, locals, globals) ==
    LET self_ref == find_value(id, locals, globals)
    IN  IF Failed(self_ref) THEN [err |-> LookupError(self_ref), locals |-> locals,
                                  callback |-> <<>>]
        ELSE IF self_ref.t = "Level" THEN power_level(self_ref, self_ref, locals)
        ELSE IF self_ref.t = "Image" THEN power_image(self_ref, locals)
        ELSE [err |-> "none", locals |-> locals, callback |-> <<>>]

\* Simple::Power (1314-1401): what the call does before the callee runs
power_call(id, locals, globals) ==
    LET self_ref == find_value(id, locals, globals)
        slot == find_mut_ref(id, locals, globals)
        obj == SlotGet(slot, locals, globals)
    IN  IF Failed(self_ref) THEN [err |-> LookupError(self_ref), locals |-> locals,
                                  callback |-> <<>>]
        ELSE IF obj.t = "Level" THEN power_level(obj, self_ref, locals)
        ELSE IF obj.t = "Image" THEN power_image(obj, locals)
        ELSE [err |-> "TypeError", locals |-> locals, callback |-> <<>>]

\* a return that always goes to locals
power_store_local(ret_val, id, glob, locals, globals) ==
    IF ret_val # None THEN [locals |-> Insert(locals, id, ret_val), globals |-> globals]
    ELSE [locals |-> locals, globals |-> globals]

\* Simple::Power (1402-1409): the returned value replaces the binding of id
power_store(ret_val, id, glob, locals, globals) ==
    IF ret_val # None THEN
        IF glob THEN [locals |-> locals, globals |-> Insert(globals, id, ret_val)]
        ELSE [locals |-> Insert(locals, id, ret_val), globals |-> globals]
    ELSE [locals |-> locals, globals |-> globals]

\* a loop that its own identifier does not end
tele_result_no_break(result, identifier) ==
    IF result = NO_BREAK THEN "continue" ELSE "return"

\* a loop that any return scope ends
tele_result_any_break(result, identifier) ==
    IF result = NO_BREAK THEN "continue" ELSE "break"

\* Instruction::Tele (97-107): what the loop does with the body's result
tele_result(result, identifier) ==
    IF result = NO_BREAK THEN "continue"
    ELSE IF result = identifier THEN "break"
    ELSE "return"

\* Instruction::Simple (549-561): whether exec_with returns after the operation
returns_after(r) == r.scope # NO_BREAK \/ r.value # None

\* ast.rs parse_inner, Noun::Level (350-386): the leading `id HAS a` statements
\* of the body are the formal arguments, the rest is the body
RECURSIVE level_args(_, _, _)
level_args(id, inner, k) ==
    IF k <= Len(inner) /\ inner[k].op = "HasValue" /\ inner[k].id = id
    THEN <<inner[k].target>> \o level_args(id, inner, k + 1)
    ELSE <<>>

parse_level(id, float, inner) ==
    LET args == level_args(id, inner, 1)
    IN  LevelI(float, id, args, SubSeq(inner, Len(args) + 1, Len(inner)))

-----------------------------------------------------------------------------
(* Programs *)

fn == Id("fn")
x == Id("x")
baba == Id("baba")
keke == Id("keke")
t == Id("t")
u == Id("u")
w == Id("w")
cls == Id("cls")
self == Id("self")
v == Id("v")
g == Id("g")
jiji == Id("jiji")

Lonely(sign) == Prefixes("Lonely", sign)

\* LEVEL definitions
LevelMove == LevelI(FALSE, fn, <<x>>, <<Move(x, FALSE)>>)

LevelMake ==
    LevelI(FALSE, fn, <<x>>, <<Move(x, FALSE), MakeValue(fn, x), Move(x, FALSE)>>)

LevelMakeInTele ==
    LevelI(TRUE, fn, <<x>>,
           <<TeleI(t, <<Move(x, FALSE), MakeValue(fn, x), Move(x, FALSE)>>),
             Move(x, FALSE)>>)

LevelEffects ==
    LevelI(FALSE, fn, <<x>>,
           <<InitYou(keke, TRUE), Move(baba, FALSE), Move(x, FALSE), IsEmpty(x)>>)

LevelTeleSameName ==
    LevelI(FALSE, fn, <<x>>, <<TeleI(fn, <<MakeValue(fn, x)>>), Move(x, FALSE)>>)

LevelFear == LevelI(FALSE, fn, <<>>, <<FearTele(baba, t), Move(baba, FALSE)>>)

LevelRecursive ==
    LevelI(TRUE, fn, <<x>>,
           <<Complex(None, Lonely(FALSE), MakeValue(fn, baba)),
             Move(baba, TRUE), Power(fn), Move(x, FALSE)>>)

LevelPool ==
    {LevelMove, LevelMake, LevelMakeInTele, LevelEffects, LevelTeleSameName,
     LevelFear, LevelRecursive}

\* IMAGE definitions
ImageEat ==
    ImageI(FALSE, cls, <<v>>,
           LevelI(FALSE, cls, <<self, x>>,
                  <<FollowAttribute(self, v), EatValue(self, x), Move(x, FALSE)>>))

ImageFloat == ImageI(TRUE, cls, <<v>>, LevelI(FALSE, cls, <<self>>, <<>>))

ImagePool == {ImageEat, ImageFloat}

\* TELE loops
TeleBreakNow == TeleI(t, <<Move(baba, FALSE), FearTele(baba, t), Move(baba, FALSE)>>)

TeleCountDown ==
    TeleI(t, <<Complex(None, Lonely(FALSE), FearTele(baba, t)),
               Text(baba), Move(baba, TRUE)>>)

TeleNested2 ==
    TeleI(u, <<TeleI(t, <<FearTele(baba, u), Move(baba, FALSE)>>), Move(baba, FALSE)>>)

TeleNested3 ==
    TeleI(u, <<TeleI(t, <<TeleI(w, <<Move(baba, FALSE), FearTele(baba, u)>>),
                         Move(baba, FALSE)>>),
               Move(baba, FALSE)>>)

TeleCall == TeleI(t, <<Power(fn), FearTele(baba, t)>>)

TelePool == {TeleBreakNow, TeleCountDown, TeleNested2, TeleNested3, TeleCall}

\* the instructions a generated program draws its top level from
TopPool ==
    LevelPool \cup ImagePool \cup TelePool \cup
    { InitYou(baba, FALSE), InitYou(baba, TRUE), InitYou(keke, TRUE),
      Move(baba, FALSE), HasValue(fn, baba), Power(fn),
      HasValue(cls, baba), Power(cls), MakeValue(fn, baba) }

\* the instructions a generated program of References draws from
RefPool ==
    { InitYou(baba, FALSE), InitYou(keke, FALSE), Move(keke, FALSE),
      MimicReference(jiji, baba), MimicReference(baba, jiji), MimicReference(baba, baba),
      Move(jiji, FALSE), Text(jiji), IsValue(jiji, keke, FALSE), IsValue(keke, jiji, FALSE),
      IsEmpty(jiji) }

\* conditions and prefixes, as conditions() builds them (instruction.rs 286-328)
Idle(sign) == Prefixes("Idle", sign)
Idents(ids) == [k \in 1..Len(ids) |-> NounIdentifier(ids[k])]
Facing(sign, ids) == Conditions("Facing", sign, Idents(ids))
On(sign, ids) == Conditions("On", sign, Idents(ids))

\* the program of conditions starts with
\*   baba is you  baba is move  baba is turn  baba is move  baba is not turn
\*   keke is you  keke is move  keke is move
\*   jiji is you  jiji is move  jiji is turn  jiji is move
\*   g is group  fn is level  fn has x  x is move  fn is done
\*   cls is float  cls is image  cls has v  cls is level  cls has self
\*   cls is done  cls is done
\* which leaves baba at (1, 1) facing right, keke at (2, 0), jiji at (1, 1)
\* facing up, fn waiting for one parameter and cls for none
CondPrelude ==
    << InitYou(baba, FALSE), Move(baba, FALSE), Turn(baba, FALSE), Move(baba, FALSE),
       Turn(baba, TRUE),
       InitYou(keke, FALSE), Move(keke, FALSE), Move(keke, FALSE),
       InitYou(jiji, FALSE), Move(jiji, FALSE), Turn(jiji, FALSE), Move(jiji, FALSE),
       InitGroup(g, FALSE), LevelMove, ImageFloat >>

\* the instructions a generated program of conditions draws from
CondPool ==
    { Turn(baba, FALSE), Turn(baba, TRUE), Move(baba, FALSE), Move(jiji, TRUE),
      HasValue(fn, baba), HasValue(cls, baba), HasValue(g, keke),
      Complex(Facing(FALSE, <<keke>>), None, Move(baba, FALSE)),
      Complex(Facing(TRUE, <<keke>>), None, Move(baba, FALSE)),
      Complex(Facing(FALSE, <<keke, jiji>>), None, Move(baba, FALSE)),
      Complex(Facing(TRUE, <<keke, jiji>>), None, Move(baba, FALSE)),
      Complex(Facing(FALSE, <<keke>>), Idle(FALSE), Move(baba, FALSE)),
      Complex(Facing(FALSE, <<keke>>), Lonely(TRUE), Move(baba, FALSE)),
      Complex(On(FALSE, <<jiji>>), None, Move(baba, FALSE)),
      Complex(Conditions("Near", FALSE, <<NounLevel>>), None, HasValue(fn, baba)),
      Complex(Conditions("Without", FALSE, Idents(<<baba>>)), None, HasValue(g, baba)),
      Complex(Conditions("Facing", FALSE, <<PropertyUp>>), None, Move(baba, FALSE)),
      Complex(None, Idle(FALSE), Move(baba, FALSE)),
      Complex(None, Idle(TRUE), Move(baba, FALSE)),
      Complex(None, Idle(FALSE), HasValue(fn, baba)),
      Complex(None, Idle(TRUE), HasValue(fn, baba)),
      Complex(None, Idle(FALSE), HasValue(cls, baba)),
      Complex(None, Idle(TRUE), HasValue(cls, baba)) }

\* the program of values starts with
\*   baba is you  baba is move  keke is you  keke is turn  keke is move
\*   keke is move  v is float  v is you  v is not move
\* which leaves baba at (1, 0), keke at (0, 2) facing up and, in the globals,
\* v at (255, 0)
ValuePrelude ==
    << InitYou(baba, FALSE), Move(baba, FALSE),
       InitYou(keke, FALSE), Turn(keke, FALSE), Move(keke, FALSE), Move(keke, FALSE),
       InitYou(v, TRUE), Move(v, TRUE) >>

\* the instructions a generated program of values draws from
ValuePool ==
    { IsValue(baba, keke, FALSE), IsValue(baba, keke, TRUE), IsValue(keke, baba, TRUE),
      IsValue(jiji, keke, FALSE), IsValue(v, keke, TRUE), IsValue(g, keke, FALSE),
      IsValue(baba, baba, TRUE),
      IsEmpty(baba), Move(keke, FALSE), Turn(baba, FALSE), InitGroup(g, FALSE),
      IsSum(jiji, Idents(<<baba, keke>>), <<FALSE, FALSE>>),
      IsSum(baba, Idents(<<keke, v>>), <<FALSE, TRUE>>),
      IsSum(v, Idents(<<baba, baba>>), <<TRUE, TRUE>>),
      IsSum(jiji, <<NounAll>>, <<TRUE>>),
      IsSum(baba, <<NounAll, NounIdentifier(keke)>>, <<FALSE, FALSE>>),
      IsSum(jiji, Idents(<<keke, g>>), <<FALSE, FALSE>>) }

\* ---------------------------------------------------------------------
\* Groups: WORD, SHIFT, SINK and SWAP
\* ---------------------------------------------------------------------

\* what stdin can hand to one read: nothing (end of input), an empty line,
\* or a line of one character; read_line keeps the newline byte
Lines == { <<>>, <<10>>, <<97, 10>> }

\* the two builds of the interpreter: with overflow checks (debug) the usize
\* subtraction len() - 1 of an empty Vec panics, without them (release) it wraps
Builds == {"debug", "release"}

\* a usize is kept as the representative of its residue mod 2^64 that lies
\* nearest to 0: usize::MAX is -1, and equality, + 1 and - 1 are those of the
\* residues as long as the values stay near 0 (they move by 1 per instruction)
InBounds(index, len) == 0 <= index /\ index < len

\* Simple::Word (629-672)
exec_Word(ins, locals, globals, buffer) ==
    LET slot == find_mut_ref(ins.id, locals, globals)
    IN  IF Failed(slot) THEN Err(LookupError(slot), locals, globals)
        ELSE LET obj == SlotGet(slot, locals, globals)
                 byte == IF buffer = <<>> THEN 0 ELSE buffer[1]
             IN  IF obj.t = "You" THEN
                     Ok(SlotPut(slot,
                                IF obj.dir % 2 = 0 THEN [obj EXCEPT !.x = byte]
                                ELSE [obj EXCEPT !.y = byte],
                                locals, globals))
                 ELSE IF obj.t = "Group" THEN
                     LET objects == [k \in 1..Len(buffer) |-> You(buffer[k], 0, 0)]
                         new == obj.data \o objects
                         \* Vec::append moves the elements out: objects is
                         \* empty when its length is read
                         appended == <<>>
                     IN  Ok(SlotPut(slot,
                                    [obj EXCEPT !.data = new,
                                                !.index = @ + Len(appended)],
                                    locals, globals))
                 ELSE Err("TypeError", locals, globals)

\* Simple::Shift (1174-1203)
exec_Shift(ins, locals, globals, build) ==
    LET slot == find_mut_ref(ins.id, locals, globals)
    IN  IF Failed(slot) THEN Err(LookupError(slot), locals, globals)
        ELSE LET obj == SlotGet(slot, locals, globals)
                 len == Len(obj.data)
             IN  IF obj.t # "Group" THEN Err("TypeError", locals, globals)
                 ELSE IF ins.not THEN
                     IF obj.index = 0 THEN
                         IF len = 0 /\ build = "debug" THEN Err("Panic", locals, globals)
                         ELSE Ok(SlotPut(slot, [obj EXCEPT !.index = len - 1],
                                         locals, globals))
                     ELSE Ok(SlotPut(slot, [obj EXCEPT !.index = @ - 1], locals, globals))
                 ELSE
                     IF len = 0 /\ build = "debug" THEN Err("Panic", locals, globals)
                     ELSE IF obj.index = len - 1 THEN
                         Ok(SlotPut(slot, [obj EXCEPT !.index = 0], locals, globals))
                     ELSE Ok(SlotPut(slot, [obj EXCEPT !.index = @ + 1], locals, globals))

\* Simple::Sink (1204-1217)
exec_Sink(ins, locals, globals) ==
    LET slot == find_mut_ref(ins.id, locals, globals)
    IN  IF Failed(slot) THEN Err(LookupError(slot), locals, globals)
        ELSE LET obj == SlotGet(slot, locals, globals)
             IN  IF obj.t # "Group" THEN Err("TypeError", locals, globals)
                 ELSE Ok(SlotPut(slot,
                                 [obj EXCEPT !.data = SubSeq(@, 1, Len(@) - 1)],
                                 locals, globals))

\* Simple::Swap (1218-1232): slice::swap panics on an index out of bounds
exec_Swap(ins, locals, globals) ==
    LET slot == find_mut_ref(ins.id, locals, globals)
    IN  IF Failed(slot) THEN Err(LookupError(slot), locals, globals)
        ELSE LET obj == SlotGet(slot, locals, globals)
                 len == Len(obj.data)
             IN  IF obj.t # "Group" THEN Err("TypeError", locals, globals)
                 ELSE IF len = 0 \/ ~InBounds(obj.index, len) THEN
                     Err("Panic", locals, globals)
                 ELSE Ok(SlotPut(slot,
                                 [obj EXCEPT !.data = [@ EXCEPT ![obj.index + 1] = obj.data[len],
                                                                ![len] = obj.data[obj.index + 1]]],
                                 locals, globals))

GroupOps == {"Word", "Shift", "Sink", "Swap"}

exec_group(ins, locals, globals, buffer, build) ==
    CASE ins.op = "Word" -> exec_Word(ins, locals, globals, buffer)
      [] ins.op = "Shift" -> exec_Shift(ins, locals, globals, build)
      [] ins.op = "Sink" -> exec_Sink(ins, locals, globals)
      [] ins.op = "Swap" -> exec_Swap(ins, locals, globals)

\* baba is you  keke is you  g is group
GroupPrelude == << InitYou(baba, FALSE), InitYou(keke, FALSE), InitGroup(g, FALSE) >>

GroupPool ==
    { HasValue(g, baba), MakeValue(g, keke), Move(baba, FALSE),
      Word(g), Word(baba), Word(jiji),
      Shift(g, FALSE), Shift(g, TRUE), Shift(baba, FALSE),
      Sink(g), Sink(baba), Swap(g), Swap(baba) }

\* baba is you, then the definition of the image cls with the attribute v
AttributePrelude == << InitYou(baba, FALSE), ImageEat >>

\* FOLLOW, EAT and MAKE on the image cls, with the declared attribute v and
\* the undeclared u, and on the You baba
AttributePool ==
    { FollowAttribute(cls, v), FollowAttribute(cls, u), EatValue(cls, baba),
      MakeValue(cls, keke), Move(baba, FALSE), Move(keke, FALSE),
      HasValue(cls, baba), Power(cls),
      FollowAttribute(baba, v), EatValue(baba, baba) }

\* the families of generated programs: the pool of each, its length, and the
\* instructions every program of the family starts with; the group programs
\* run on a build with overflow checks (-4) and on one without (-5)
Families == {0, -1, -2, -3, -4, -5, -6}

Pool(family) ==
    CASE family = 0 -> TopPool
      [] family = -1 -> RefPool
      [] family = -2 -> CondPool
      [] family = -3 -> ValuePool
      [] family \in {-4, -5} -> GroupPool
      [] family = -6 -> AttributePool

PoolLen(family) ==
    CASE family = 0 -> MaxProgLen
      [] family = -1 -> MaxRefLen
      [] family = -2 -> MaxCondLen
      [] family = -3 -> MaxValueLen
      [] family \in {-4, -5} -> MaxGroupLen
      [] family = -6 -> MaxImageLen

Prelude(family) ==
    CASE family = -2 -> CondPrelude
      [] family = -3 -> ValuePrelude
      [] family \in {-4, -5} -> GroupPrelude
      [] family = -6 -> AttributePrelude
      [] OTHER -> <<>>

\* baba is you  baba is turn  baba is move  baba is not turn, then dir times
\* baba is turn, then 256 times baba is move (or baba is not move)
MoveStart(dir) ==
    << InitYou(baba, FALSE), Turn(baba, FALSE), Move(baba, FALSE), Turn(baba, TRUE) >>
        \o [k \in 1..dir |-> Turn(baba, FALSE)]

MoveProgram(dir, not) == MoveStart(dir) \o [k \in 1..Byte |-> Move(baba, not)]

\* fixed programs, as the AST builder emits them
Scenario(n) ==
    CASE n = 1 ->
            \* x is tele  baba is you  baba fear x  x is done  all is done
            << TeleI(x, <<InitYou(baba, FALSE), FearTele(baba, x)>>) >>
      [] n = 2 ->
            \* fn is level  fn has x  fn is move  fn is done  baba is you
            \* fn has baba  baba is power  all is done
            << parse_level(fn, FALSE, <<HasValue(fn, x), Move(fn, FALSE)>>),
               InitYou(baba, FALSE), HasValue(fn, baba), Power(baba) >>
      [] n = 3 ->
            \* baba is you  u is tele  t is tele  w is tele  baba is move
            \* baba fear u  w is done  baba is move  t is done  baba is move
            \* u is done  baba is text  all is done
            << InitYou(baba, FALSE), TeleNested3, Text(baba) >>
      [] n = 4 ->
            \* g is you  g is float  g is you  g is you  all is done
            << InitYou(g, FALSE), InitYou(g, TRUE), InitYou(g, FALSE) >>
      [] n = 5 ->
            \* g is group  baba is you  g has baba  g make empty  g has empty
            \* all is done
            << InitGroup(g, FALSE), InitYou(baba, FALSE), HasValue(g, baba),
               MakeValue(g, 0), HasValue(g, 0) >>

      [] n \in 6..13 -> MoveProgram((n - 6) % 4, n >= 10)

Scenarios == 1..13

-----------------------------------------------------------------------------
(* The state *)

VARIABLES
    scenario,   \* a family of generated programs, or n > 0: the program Scenario(n)
    stack,      \* the exec_with activations, the innermost last
    stores,     \* the (locals, globals) of each call frame, the innermost last
    ret,        \* the (return_scope, return_value) an activation just returned
    drawn,      \* the number of instructions a generated program has so far
    status,     \* "running", or how the process ended
    error,      \* the ErrorType that ended it
    out,        \* the bytes written to stdout
    lexer,      \* tokenize (lexer.rs): its locals while it reads the source
    parser,     \* parse (statement_parser.rs): its locals while it reads the tokens
    builder     \* parse (ast.rs): the statements and the open scopes

vars == <<scenario, stack, stores, ret, drawn, status, error, out,
          lexer, parser, builder>>

\* the stages of main before exec (main.rs 36-53)
front == <<lexer, parser, builder>>

\* a stage that is not running: it has finished, or has not started
Off == [state |-> "Off"]

NoRet == [from |-> None, scope |-> NO_BREAK, value |-> None]

Activation(kind, scope, body, id, glob) ==
    [kind |-> kind, scope |-> scope, body |-> body, pc |-> 1,
     return_value |-> None, id |-> id, glob |-> glob]

\* exec (15-25)
Init ==
    /\ scenario \in Families \cup Scenarios
    /\ stack = << Activation("prg", PRG_SCOPE,
                             IF scenario \in Families THEN Prelude(scenario)
                             ELSE Scenario(scenario),
                             0, FALSE) >>
    /\ stores = << [locals |-> EmptyMap,
                    globals |-> Insert(Insert(EmptyMap, 0, EMPTY), 1, LEVEL)] >>
    /\ ret = NoRet
    /\ drawn = 0
    /\ status = "running"
    /\ error = "none"
    /\ out = <<>>
    /\ lexer = Off
    /\ parser = Off
    /\ builder = Off

Top == stack[Len(stack)]
Cur == stores[Len(stores)]
Pop(seq) == SubSeq(seq, 1, Len(seq) - 1)

Running == status = "running" /\ ret = NoRet /\ stack # <<>>
Returning == status = "running" /\ ret # NoRet

\* for instruction in ast (46): the instruction about to execute
HasInstr == Top.pc <= Len(Top.body)
Instr == Top.body[Top.pc]
Fetch == IF HasInstr THEN {Instr} ELSE {}

AtEnd == Top.pc > Len(Top.body)

ExitStatus(err) ==
    IF err = "Win" THEN "exit0"
    ELSE IF err \in {"Panic", "StackOverflow"} THEN "abort"
    ELSE "exit1"

\* throw_error without its exit: the diagnostic is written and the caller goes on
Throw_returns(err, bytes) ==
    /\ error' = err
    /\ out' = out \o bytes
    /\ stack' = [stack EXCEPT ![Len(stack)].pc = @ + 1]
    /\ UNCHANGED <<front, scenario, stores, ret, drawn, status>>

\* throw_error (error_handler.rs 29-62) and exit: the process ends
Throw(err, bytes) ==
    /\ status' = ExitStatus(err)
    /\ error' = err
    /\ out' = out \o bytes
    /\ UNCHANGED <<front, scenario, stack, stores, ret, drawn>>

\* the result of a leaf operation reaches exec_with (527-538, 550-561)
Apply(r) ==
    IF r.err # "none" THEN Throw(r.err, r.out)
    ELSE
        /\ stores' = [stores EXCEPT ![Len(stores)] =
                          [locals |-> r.locals, globals |-> r.globals]]
        /\ out' = out \o r.out
        /\ IF returns_after(r)
           THEN /\ ret' = [from |-> Top, scope |-> r.scope,
                           value |-> IF r.value # None THEN r.value
                                     ELSE Top.return_value]
                /\ stack' = Pop(stack)
           ELSE /\ ret' = NoRet
                /\ stack' = [stack EXCEPT ![Len(stack)].pc = @ + 1]
        /\ UNCHANGED <<front, scenario, drawn, status, error>>

\* A generated program: its top level is any sequence of instructions of the
\* pool of its family, up to the length of the family, read one at a time
\* (the body of the program activation holds the instruction read last)
Draw ==
    /\ Running
    /\ scenario \in Families
    /\ Top.kind = "prg"
    /\ AtEnd
    /\ drawn < PoolLen(scenario)
    /\ \E ins \in Pool(scenario) :
        stack' = [stack EXCEPT ![Len(stack)].body = <<ins>>, ![Len(stack)].pc = 1]
    /\ drawn' = drawn + 1
    /\ UNCHANGED <<front, scenario, stores, ret, status, error, out>>

\* Instruction::Simple (549-562)
StepSimple ==
    /\ Running
    /\ \E ins \in Fetch :
        /\ ins.op \in SimpleOps
        /\ Apply(exec_simple(ins, Cur.locals, Cur.globals))

Build == IF scenario = -5 THEN "release" ELSE "debug"

\* Simple::Word, Shift, Sink and Swap with the line stdin delivers
StepGroup ==
    /\ Running
    /\ \E ins \in Fetch :
        /\ ins.op \in GroupOps
        /\ \E buffer \in Lines :
            Apply(exec_group(ins, Cur.locals, Cur.globals, buffer, Build))

\* Instruction::Complex (110-548)
StepComplex ==
    /\ Running
    /\ \E ins \in Fetch :
        /\ ins.op = "Complex"
        /\ Apply(exec_complex(ins, Cur.locals, Cur.globals))

\* Instruction::Level (48-61)
StepLevel ==
    /\ Running
    /\ \E ins \in Fetch :
        /\ ins.op = "Level"
        /\ stores' = [stores EXCEPT ![Len(stores)] =
                          initialize(ins.identifier, level_object(ins), ins.float,
                                     Cur.locals, Cur.globals)]
        /\ stack' = [stack EXCEPT ![Len(stack)].pc = @ + 1]
        /\ UNCHANGED <<front, scenario, ret, drawn, status, error, out>>

\* Instruction::Image (62-87)
StepImage ==
    /\ Running
    /\ \E ins \in Fetch :
        /\ ins.op = "Image"
        /\ stores' = [stores EXCEPT ![Len(stores)] =
                          initialize(ins.identifier, image_object(ins), ins.float,
                                     Cur.locals, Cur.globals)]
        /\ stack' = [stack EXCEPT ![Len(stack)].pc = @ + 1]
        /\ UNCHANGED <<front, scenario, ret, drawn, status, error, out>>

\* Instruction::Tele (88-96): the first run of the body
StepTele ==
    /\ Running
    /\ \E ins \in Fetch :
        /\ ins.op = "Tele"
        /\ stack' = Append(stack, Activation("tele", ins.identifier, ins.instructions,
                                             0, FALSE))
        /\ UNCHANGED <<front, scenario, stores, ret, drawn, status, error, out>>

\* the end of `for instruction in ast` (566-567)
BodyEnd ==
    /\ Running
    /\ AtEnd
    /\ ret' = [from |-> Top, scope |-> NO_BREAK, value |-> Top.return_value]
    /\ stack' = Pop(stack)
    /\ UNCHANGED <<front, scenario, stores, drawn, status, error, out>>

\* Instruction::Tele (97-100): the body returned NO_BREAK, it runs again
TeleContinue ==
    /\ Returning
    /\ ret.from.kind = "tele"
    /\ tele_result(ret.scope, ret.from.scope) = "continue"
    /\ stack' = Append([stack EXCEPT ![Len(stack)].return_value = ret.value],
                       [ret.from EXCEPT !.pc = 1, !.return_value = None])
    /\ ret' = NoRet
    /\ UNCHANGED <<front, scenario, stores, drawn, status, error, out>>

\* Instruction::Tele (101-103): the body returned this tele's identifier
TeleBreak ==
    /\ Returning
    /\ ret.from.kind = "tele"
    /\ tele_result(ret.scope, ret.from.scope) = "break"
    /\ stack' = [stack EXCEPT ![Len(stack)].return_value = ret.value,
                              ![Len(stack)].pc = @ + 1]
    /\ ret' = NoRet
    /\ UNCHANGED <<front, scenario, stores, drawn, status, error, out>>

\* Instruction::Tele (104-107): any other scope unwinds the enclosing body too
TeleReturn ==
    /\ Returning
    /\ ret.from.kind = "tele"
    /\ tele_result(ret.scope, ret.from.scope) = "return"
    /\ ret' = [from |-> Top, scope |-> ret.scope, value |-> ret.value]
    /\ stack' = Pop(stack)
    /\ UNCHANGED <<front, scenario, stores, drawn, status, error, out>>

\* Simple::Power (1314-1401): the callee starts in clones of both maps
PowerCall ==
    /\ Running
    /\ Len(stores) <= MaxDepth
    /\ \E ins \in Fetch :
        /\ ins.op = "Power"
        /\ LET c == power_call(ins.id, Cur.locals, Cur.globals)
           IN  IF c.err # "none" THEN Throw(c.err, <<>>)
               ELSE
                   /\ stack' = Append(stack,
                                      Activation("call", ins.id, c.callback, ins.id,
                                                 ins.id \in DOMAIN Cur.globals))
                   /\ stores' = Append(stores, [locals |-> c.locals,
                                                globals |-> Cur.globals])
                   /\ UNCHANGED <<front, scenario, ret, drawn, status, error, out>>

\* a call that hands the return scope of its callee to the body around it
PowerReturnUnwind ==
    /\ Returning
    /\ ret.from.kind = "call"
    /\ LET caller == stores[Len(stores) - 1]
       IN  stores' = [Pop(stores) EXCEPT ![Len(stores) - 1] =
                          power_store(ret.value, ret.from.id, ret.from.glob,
                                      caller.locals, caller.globals)]
    /\ IF ret.scope \in {NO_BREAK, ret.from.id}
       THEN /\ stack' = [stack EXCEPT ![Len(stack)].pc = @ + 1]
            /\ ret' = NoRet
       ELSE /\ stack' = Pop(stack)
            /\ ret' = [from |-> Top, scope |-> ret.scope, value |-> None]
    /\ UNCHANGED <<front, scenario, drawn, status, error, out>>

\* a call that ran on the caller's own maps: what the callee left is kept
PowerReturnShared ==
    /\ Returning
    /\ ret.from.kind = "call"
    /\ stores' = [Pop(stores) EXCEPT ![Len(stores) - 1] =
                      power_store(ret.value, ret.from.id, ret.from.glob,
                                  Cur.locals, Cur.globals)]
    /\ stack' = [stack EXCEPT ![Len(stack)].pc = @ + 1]
    /\ ret' = NoRet
    /\ UNCHANGED <<front, scenario, drawn, status, error, out>>

\* Simple::Power (1335, 1402-1410): the callee returned
PowerReturn ==
    /\ Returning
    /\ ret.from.kind = "call"
    /\ LET caller == stores[Len(stores) - 1]
       IN  stores' = [Pop(stores) EXCEPT ![Len(stores) - 1] =
                          power_store(ret.value, ret.from.id, ret.from.glob,
                                      caller.locals, caller.globals)]
    /\ stack' = [stack EXCEPT ![Len(stack)].pc = @ + 1]
    /\ ret' = NoRet
    /\ UNCHANGED <<front, scenario, drawn, status, error, out>>

\* exec returns to main (main.rs 56-60): exit status 0
ProgramEnd ==
    /\ Returning
    /\ ret.from.kind = "prg"
    /\ status' = "exit0"
    /\ ret' = NoRet
    /\ UNCHANGED <<front, scenario, stack, stores, drawn, error, out>>

Next ==
    \/ Draw
    \/ StepSimple
    \/ StepGroup
    \/ StepComplex
    \/ StepLevel
    \/ StepImage
    \/ StepTele
    \/ BodyEnd
    \/ TeleContinue
    \/ TeleBreak
    \/ TeleReturn
    \/ PowerCall
    \/ PowerReturn
    \/ ProgramEnd

Spec == Init /\ [][Next]_vars

-----------------------------------------------------------------------------
(* Properties *)

\* the innermost activation after the step
TopAfter == stack'[Len(stack')]

\* the innermost store after the step
CurAfter == stores'[Len(stores')]

\* the instruction about to execute is `source FEAR target`, alone or under a
\* prefix that holds, and its source is defined
FearsNow(target) ==
    /\ Running
    /\ HasInstr
    /\ \/ /\ Instr.op = "FearTele"
          /\ Instr.target = target
          /\ ~Failed(find_ref(Instr.id, Cur.locals, Cur.globals))
       \/ /\ Instr.op = "Complex"
          /\ Instr.instruction.op = "FearTele"
          /\ Instr.instruction.target = target
          /\ exec_complex(Instr, Cur.locals, Cur.globals).scope = target

\* the values of a map at the keys other than id are what they were
SameExcept(after, before, id) ==
    /\ DOMAIN after \ {id} = DOMAIN before \ {id}
    /\ \A k \in DOMAIN before \ {id} : after[k] = before[k]

\* C1, the body of a Tele ended without a break: the same body starts again
\* at its first instruction, in the same scopes
C1_Continue ==
    (Returning /\ ret.from.kind = "tele" /\ ret.scope = NO_BREAK) =>
        /\ Len(stack') = Len(stack) + 1
        /\ TopAfter.kind = "tele"
        /\ TopAfter.scope = ret.from.scope
        /\ TopAfter.body = ret.from.body
        /\ TopAfter.pc = 1
        /\ stores' = stores
        /\ ret' = NoRet

\* C1, FearTele on the Tele being run: the body is left at once with the
\* Tele's identifier as its return scope
C1_Fear ==
    (Running /\ Top.kind = "tele" /\ FearsNow(Top.scope)) =>
        /\ stack' = Pop(stack)
        /\ ret'.from = Top
        /\ ret'.scope = Top.scope
        /\ stores' = stores
        /\ out' = out

\* C1, the body returned the Tele's own identifier: the loop is over and the
\* enclosing body goes on with the instruction after the Tele
C1_Break ==
    (Returning /\ ret.from.kind = "tele" /\ ret.scope = ret.from.scope
               /\ ret.scope # NO_BREAK) =>
        /\ Len(stack') = Len(stack)
        /\ TopAfter.kind = Top.kind
        /\ TopAfter.body = Top.body
        /\ TopAfter.pc = Top.pc + 1
        /\ stores' = stores
        /\ ret' = NoRet

\* C1, the program `x is tele baba is you baba fear x x is done all is done`
\* ends with exit status 0 after one pass through the body
C1_Program ==
    (scenario = 1 /\ status # "running") =>
        /\ status = "exit0"
        /\ error = "none"
        /\ Get(Cur.locals, baba) = You(0, 0, 0)

\* C1: a Tele repeats its body while the body returns NO_BREAK; a FearTele
\* naming the Tele leaves the body at once and ends the loop, and execution
\* continues after the Tele
C1_TeleLoop ==
    /\ [][C1_Continue /\ C1_Fear /\ C1_Break]_vars
    /\ []C1_Program

\* C1: the loop TeleCountDown went round (it printed), was broken by its
\* FearTele, and the program is past the Tele
C1_Witness ==
    /\ Running
    /\ Top.kind = "prg"
    /\ Top.body = <<TeleCountDown>>
    /\ Top.pc = 2
    /\ out # <<>>

\* the positions of the Teles that enclose the innermost one with no call or
\* Tele of the same name between them and the instruction about to execute
OuterTeles ==
    { k \in 1..(Len(stack) - 1) :
        /\ stack[k].kind = "tele"
        /\ \A j \in (k + 1)..Len(stack) :
              stack[j].kind = "tele" /\ stack[j].scope # stack[k].scope }

\* C2, FearTele on an enclosing Tele: the innermost body is left at once with
\* that Tele's identifier as the return scope
C2_Fear ==
    \A k \in (IF Running THEN OuterTeles ELSE {}) :
        FearsNow(stack[k].scope) =>
            /\ stack' = Pop(stack)
            /\ ret'.from = Top
            /\ ret'.scope = stack[k].scope
            /\ stores' = stores
            /\ out' = out

\* C2, a body returned the identifier of another Tele: the Tele it belongs to
\* ends without another iteration and hands the same scope and value to the
\* body around it, whose remaining instructions are dropped
C2_Pass ==
    (Returning /\ ret.from.kind = "tele"
               /\ ret.scope # NO_BREAK /\ ret.scope # ret.from.scope) =>
        /\ stack' = Pop(stack)
        /\ ret' = [from |-> Top, scope |-> ret.scope, value |-> ret.value]
        /\ stores' = stores
        /\ out' = out

\* C2, the return scope reached the Tele it names: that Tele ends and the
\* body around it goes on with the next instruction
C2_Resume ==
    (Returning /\ ret.from.kind = "tele" /\ ret.scope = ret.from.scope
               /\ ret.scope # NO_BREAK) =>
        /\ stack' = [stack EXCEPT ![Len(stack)].pc = @ + 1,
                                  ![Len(stack)].return_value = ret.value]
        /\ ret' = NoRet
        /\ stores' = stores

\* C2, the program Scenario(3): `baba fear u` inside Teles w, t, u runs after
\* one `baba is move`; neither the rest of t nor the rest of u executes, and
\* the `baba is text` after u prints 1
C2_Program ==
    (scenario = 3 /\ status # "running") =>
        /\ status = "exit0"
        /\ out = <<1>>
        /\ Get(Cur.locals, baba) = You(1, 0, 0)

\* C2: a FearTele naming an outer Tele T unwinds every Tele nested between it
\* and T without running their remaining instructions or iterating them
\* again, breaks T, and execution resumes after T
C2_FearOuterTele ==
    /\ [][C2_Fear /\ C2_Pass /\ C2_Resume]_vars
    /\ []C2_Program

\* C2: the scope u raised inside w and handed on by t has reached the Tele u
\* of TeleNested3, which is about to end
C2_Witness ==
    /\ Returning
    /\ ret.from.kind = "tele"
    /\ ret.from.body = TeleNested3.instructions
    /\ ret.from.pc = 1
    /\ ret.scope = u

\* C3, `f MAKE v` in a call of the Level f: the body is left at once with
\* the value of v as the pending return value
C3_Make ==
    (Running /\ HasInstr /\ Len(stores) > 1 /\ Instr.op = "MakeValue"
             /\ find_ref(Instr.id, Cur.locals, Cur.globals).t = "Level"
             /\ ~Failed(find_value(Instr.target, Cur.locals, Cur.globals))) =>
        /\ stack' = Pop(stack)
        /\ ret'.scope = Instr.id
        /\ ret'.value = find_value(Instr.target, Cur.locals, Cur.globals)
        /\ stores' = stores

\* C3, a value returned by MAKE is pending inside a call: the body around the
\* Tele it came out of is left too, with the same value, and nothing else
\* of the callee executes
C3_Unwind ==
    (Returning /\ ret.from.kind = "tele" /\ Len(stores) > 1
               /\ ret.scope # NO_BREAK /\ ret.value # None) =>
        /\ stack' = Pop(stack)
        /\ ret'.scope = ret.scope
        /\ ret'.value = ret.value
        /\ stores' = stores

\* C3, the call ends with a value returned by MAKE: the caller receives it
C3_Deliver ==
    (Returning /\ ret.from.kind = "call"
               /\ ret.scope # NO_BREAK /\ ret.value # None) =>
        /\ Len(stores') = Len(stores) - 1
        /\ ret.value \in { Get(CurAfter.locals, ret.from.id),
                           Get(CurAfter.globals, ret.from.id) }

\* C3: inside a call of the Level f, `f MAKE v` ends the call at once and the
\* call returns the value v had at that moment
C3_MakeEndsCall == [][C3_Make /\ C3_Unwind /\ C3_Deliver]_vars

\* C3: in a call of LevelTeleSameName the Tele named fn took the scope of
\* `fn make x` for its own break, and the callee is executing `x is move`
C3_Witness ==
    /\ Running
    /\ Len(stores) > 1
    /\ Top.kind = "call"
    /\ Top.body = level_object(LevelTeleSameName).callback
    /\ Top.pc = 2
    /\ Top.return_value # None

\* the object a definition of id with this float flag has just stored
Stored(id, float) ==
    IF float \/ id \in DOMAIN Cur.globals THEN CurAfter.globals[id]
    ELSE CurAfter.locals[id]

\* the object the caller of the innermost call frame resolves id to
CalleeOf(id) ==
    find_ref(id, stores[Len(stores) - 1].locals, stores[Len(stores) - 1].globals)

\* C4, Instruction::Level: the stored callback is the body followed by
\* MakeValue(identifier, 0), whatever the formal arguments are
C4_Stored ==
    (Running /\ HasInstr /\ Instr.op = "Level") =>
        LET o == Stored(Instr.identifier, Instr.float)
        IN  /\ o.t = "Level"
            /\ o.identifier = Instr.identifier
            /\ o.arguments = Instr.arguments
            /\ o.parameters = <<>>
            /\ o.callback = Append(Instr.instructions, MakeValue(Instr.identifier, 0))

\* C4, the call of a Level that ended at the appended instruction returns
\* the object bound to identifier 0 (EMPTY unless the callee rebound it)
C4_Returned ==
    (Returning /\ ret.from.kind = "call" /\ CalleeOf(ret.from.id).t = "Level"
               /\ ret.from.pc = Len(ret.from.body)) =>
        ret.value = find_value(0, Cur.locals, Cur.globals)

\* C4 (amended): the callback a Level definition stores is the body followed
\* by MakeValue(identifier, 0), so a call that runs to the end of the body
\* returns the object bound to identifier 0, not the first formal argument
C4_LevelTrailer == [][C4_Stored]_vars /\ []C4_Returned

\* C4 as the spec states it: the appended instruction is
\* MakeValue(identifier, arguments[0]) and the call returns the callee's
\* final value of its first formal argument
C4_Original ==
    /\ [][(Running /\ HasInstr /\ Instr.op = "Level" /\ Instr.arguments # <<>>) =>
            Stored(Instr.identifier, Instr.float).callback =
                Append(Instr.instructions,
                       MakeValue(Instr.identifier, Instr.arguments[1]))]_vars
    /\ []((Returning /\ ret.from.kind = "call" /\ CalleeOf(ret.from.id).t = "Level"
                     /\ CalleeOf(ret.from.id).arguments # <<>>
                     /\ ret.from.pc = Len(ret.from.body)) =>
            ret.value = find_value(CalleeOf(ret.from.id).arguments[1],
                                   Cur.locals, Cur.globals))

\* C4: a call of LevelMove ran to its end; the callee moved its argument x to
\* (1, 0) and the call returns EMPTY
C4_Witness ==
    /\ Returning
    /\ ret.from.kind = "call"
    /\ ret.from.body = level_object(LevelMove).callback
    /\ ret.from.pc = Len(ret.from.body)
    /\ Get(Cur.locals, x) = You(1, 0, 0)
    /\ ret.value = EMPTY

\* the instruction about to execute is Power on an object of this type
PowerOn(type) ==
    /\ Running
    /\ HasInstr
    /\ Instr.op = "Power"
    /\ find_ref(Instr.id, Cur.locals, Cur.globals).t = type

\* the call a Power starts runs this callback from its first instruction
CallStarts(callback) ==
    /\ Len(stack') = Len(stack) + 1
    /\ TopAfter.kind = "call"
    /\ TopAfter.body = callback
    /\ TopAfter.pc = 1
    /\ Len(stores') = Len(stores) + 1
    /\ status' = "running"

\* the Power ends the program with ArgumentError before any callee step
CallRefused ==
    /\ status' = "exit1"
    /\ error' = "ArgumentError"
    /\ stack' = stack
    /\ stores' = stores
    /\ out' = out

\* C5, Power on a Level
C5_Level ==
    PowerOn("Level") =>
        LET level == find_ref(Instr.id, Cur.locals, Cur.globals)
        IN  IF Len(level.arguments) = Len(level.parameters)
            THEN CallStarts(level.callback)
            ELSE CallRefused

\* C5, Power on an Image
C5_Image ==
    PowerOn("Image") =>
        LET ctor == find_ref(Instr.id, Cur.locals, Cur.globals).constructor
        IN  IF Len(ctor.arguments) - 1 = Len(ctor.parameters)
            THEN CallStarts(ctor.callback)
            ELSE CallRefused

\* C5: Power with a parameter count that differs from the argument count
\* (less self for an Image) raises ArgumentError and runs nothing of the
\* callee; with equal counts the callee body starts
C5_ArgumentCount == [][C5_Level /\ C5_Image]_vars

\* C5: a Power on a Level with two parameters for one argument ended the
\* program with ArgumentError
C5_Witness ==
    /\ status = "exit1"
    /\ error = "ArgumentError"
    /\ stack # <<>>
    /\ HasInstr
    /\ Instr.op = "Power"
    /\ LET level == find_ref(Instr.id, Cur.locals, Cur.globals)
       IN  level.t = "Level" /\ Len(level.parameters) > Len(level.arguments)

\* C6, while a callee runs: the maps of every frame below the innermost one
\* stay as they are, and a call leaves the caller's maps as they are
C6_Frames ==
    \A k \in 1..Len(stores) :
        Len(stores') > k => stores'[k] = stores[k]

\* C6, the callee returned: in the caller's maps only the binding of id may
\* differ from what it was when the call started
C6_Return ==
    (Returning /\ ret.from.kind = "call") =>
        /\ Len(stores') = Len(stores) - 1
        /\ \A k \in 1..(Len(stores) - 2) : stores'[k] = stores[k]
        /\ SameExcept(CurAfter.locals, stores[Len(stores) - 1].locals, ret.from.id)
        /\ SameExcept(CurAfter.globals, stores[Len(stores) - 1].globals, ret.from.id)

\* C6: a call works on clones of the caller's maps; from the call to the
\* return the caller's locals and globals do not change, and the return
\* changes nothing in them but the binding of id
C6_PassByValue == [][C6_Frames /\ C6_Return]_vars

\* C6: a call of LevelEffects is returning; the callee moved its parameter x
\* and the local baba and floated keke, none of which the caller's maps show
C6_Witness ==
    /\ Returning
    /\ ret.from.kind = "call"
    /\ ret.from.body = level_object(LevelEffects).callback
    /\ Get(Cur.locals, x) = EMPTY
    /\ keke \in DOMAIN Cur.globals
    /\ keke \notin DOMAIN stores[Len(stores) - 1].globals
    /\ Get(Cur.locals, baba) # Get(stores[Len(stores) - 1].locals, baba)

\* C7: the value a call of a Level returns is stored under id, in the
\* caller's globals when id is bound there and in its locals otherwise, and
\* the other map is left as it is
C7_Step ==
    (Returning /\ ret.from.kind = "call" /\ ret.value # None
               /\ CalleeOf(ret.from.id).t = "Level") =>
        LET caller == stores[Len(stores) - 1]
        IN  /\ Len(stores') = Len(stores) - 1
            /\ IF ret.from.id \in DOMAIN caller.globals
               THEN /\ CurAfter.globals[ret.from.id] = ret.value
                    /\ CurAfter.locals = caller.locals
               ELSE /\ CurAfter.locals[ret.from.id] = ret.value
                    /\ CurAfter.globals = caller.globals

\* C7: when Power(id) on a Level completes with a value, the value replaces
\* the binding of id in globals if id is bound in globals, else in locals
C7_ReturnStored == [][C7_Step]_vars

\* C7: a call of the floating LevelMakeInTele is returning the moved
\* parameter to a caller that has fn in its globals
C7_Witness ==
    /\ Returning
    /\ ret.from.kind = "call"
    /\ ret.value = You(1, 0, 0)
    /\ fn \in DOMAIN stores[Len(stores) - 1].globals
    /\ CalleeOf(fn).t = "Level"

\* C8 (amended): in Scenario(2) `baba is power` is a Power on a You: the
\* program ends with TypeError, exit status 1; no call is made, the body of
\* fn never executes and baba stays at (0, 0)
C8_TypeError ==
    /\ scenario = 2 => Len(stores) = 1 /\ \A k \in 1..Len(stack) : stack[k].kind = "prg"
    /\ (scenario = 2 /\ status # "running") =>
          /\ status = "exit1"
          /\ error = "TypeError"
          /\ Instr = Power(baba)
          /\ Get(Cur.locals, baba) = You(0, 0, 0)
          /\ Get(Cur.locals, fn).parameters = <<You(0, 0, 0)>>

\* C8 as the spec states it: the program finishes without error, exit
\* status 0, with baba.x = 1
C8_Original ==
    (scenario = 2 /\ status # "running") =>
        /\ status = "exit0"
        /\ error = "none"
        /\ Get(Cur.locals, baba).t = "You"
        /\ Get(Cur.locals, baba).x = 1

\* C8: Scenario(2) has ended on its Power instruction
C8_Witness ==
    /\ scenario = 2
    /\ status = "exit1"
    /\ Top.pc = 4

\* the constructor of the Image a Power is about to call
Ctor == find_ref(Instr.id, Cur.locals, Cur.globals).constructor

\* C9, the constructor call starts: the callee's maps are the caller's with
\* the constructor under the class id, each parameter under its formal
\* argument and a new ImageInstance of the template under self
C9_Call ==
    (PowerOn("Image") /\ Len(Ctor.arguments) - 1 = Len(Ctor.parameters)) =>
        LET image == find_ref(Instr.id, Cur.locals, Cur.globals)
            args == Ctor.arguments
            bound == {args[k] : k \in 1..Len(args)} \cup {image.identifier}
        IN  /\ CallStarts(Ctor.callback)
            /\ stores'[Len(stores)] = Cur
            /\ CurAfter.globals = Cur.globals
            /\ Get(CurAfter.locals, args[1]) =
                   ImageInstance(image.identifier, image.attribute_pointer,
                                 image.attributes)
            /\ \A k \in 2..Len(args) :
                  (/\ \A j \in 1..Len(args) : j # k => args[j] # args[k]
                   /\ args[k] # image.identifier) =>
                      Get(CurAfter.locals, args[k]) = Ctor.parameters[k - 1]
            /\ DOMAIN CurAfter.locals = DOMAIN Cur.locals \cup bound
            /\ \A i \in DOMAIN Cur.locals \ bound : CurAfter.locals[i] = Cur.locals[i]

\* C9, the constructor reached the appended MakeValue: the value returned is
\* self as the body left it
C9_Returned ==
    (Returning /\ ret.from.kind = "call" /\ CalleeOf(ret.from.id).t = "Image"
               /\ ret.from.pc = Len(ret.from.body)) =>
        ret.value = find_value(CalleeOf(ret.from.id).constructor.arguments[1],
                               Cur.locals, Cur.globals)

\* C9, the constructor returned: id is bound to the returned value
C9_Bound ==
    (Returning /\ ret.from.kind = "call" /\ CalleeOf(ret.from.id).t = "Image"
               /\ ret.value # None) =>
        IF ret.from.id \in DOMAIN stores[Len(stores) - 1].globals
        THEN CurAfter.globals[ret.from.id] = ret.value
        ELSE CurAfter.locals[ret.from.id] = ret.value

\* C9: Power on an Image with as many parameters as constructor arguments
\* after self runs the constructor in new maps with the parameters bound in
\* order and self bound to a new ImageInstance of the template; afterwards
\* id is bound to the value of self the constructor returned
C9_ImagePower == [][C9_Call /\ C9_Bound]_vars /\ []C9_Returned

\* C9: after a call of ImageEat, cls is the instance whose attribute v holds
\* what the constructor stored in self
C9_Witness ==
    /\ Running
    /\ Len(stores) = 1
    /\ Get(Cur.locals, cls).t = "ImageInstance"
    /\ Get(Cur.locals, cls).class = cls
    /\ Get(Cur.locals, cls).attribute_pointer = v
    /\ Get(Cur.locals, cls).attributes[v] # None

\* the identifier and the object of a definition instruction
InitId(ins) == IF ins.op \in {"InitYou", "InitGroup"} THEN ins.id ELSE ins.identifier

InitObj(ins) ==
    CASE ins.op = "InitYou" -> You(0, 0, 0)
      [] ins.op = "InitGroup" -> Group(0, <<>>)
      [] ins.op = "Level" -> level_object(ins)
      [] ins.op = "Image" -> image_object(ins)

\* C10, the placement of an object a definition creates
C10_Step ==
    (Running /\ HasInstr /\ Instr.op \in {"InitYou", "InitGroup", "Level", "Image"}) =>
        LET id == InitId(Instr)
            obj == InitObj(Instr)
            L == Cur.locals
            G == Cur.globals
        IN  IF Instr.float THEN
                /\ CurAfter.locals = [i \in DOMAIN L \ {id} |-> L[i]]
                /\ CurAfter.globals = [i \in DOMAIN G \cup {id} |->
                                          IF i = id THEN obj ELSE G[i]]
            ELSE IF id \in DOMAIN G THEN
                /\ CurAfter.locals = L
                /\ CurAfter.globals = [i \in DOMAIN G |-> IF i = id THEN obj ELSE G[i]]
            ELSE
                /\ CurAfter.globals = G
                /\ CurAfter.locals = [i \in DOMAIN L \cup {id} |->
                                         IF i = id THEN obj ELSE L[i]]

\* C10, Scenario(4): g is defined in locals, floated (out of locals, into
\* globals), then defined again without float (replaced in globals)
C10_Program ==
    (scenario = 4 /\ status # "running") =>
        /\ status = "exit0"
        /\ g \notin DOMAIN Cur.locals
        /\ Get(Cur.globals, g) = You(0, 0, 0)

\* C10: initialize(id, obj, float) with float removes id from locals and puts
\* obj into globals; without float it replaces id in globals when bound
\* there and else puts obj into locals; no other binding changes
C10_Initialize == [][C10_Step]_vars /\ []C10_Program

\* C10: Scenario(4) has ended; its three definitions of g went to locals,
\* from locals to globals, and into globals again
C10_Witness ==
    /\ scenario = 4
    /\ status = "exit0"
    /\ g \in DOMAIN Cur.globals
    /\ g \notin DOMAIN Cur.locals

\* the identifier at the end of the Reference chain that starts at id
EndOf(id) == find_mut_ref(id, Cur.locals, Cur.globals).id

\* the chain that starts at id has at least one Reference and ends at an object
ThroughReference(id) ==
    /\ Get(Cur.locals, id).t = "Reference"
       \/ (id \notin DOMAIN Cur.locals /\ Get(Cur.globals, id).t = "Reference")
    /\ ~Failed(find_ref(id, Cur.locals, Cur.globals))

\* the operations of RefPool that look up their subject
ReadsSubject == {"Move", "Text", "IsValue", "IsEmpty"}

\* C11: an operation whose subject is bound to a Reference chain that ends at
\* the object o does what the same operation on the identifier of o does
\* (the result, the error and both maps are the same), IsValue and IsEmpty
\* on their destination included
C11_ReferenceTransparent ==
    (Running /\ HasInstr /\ Instr.op \in ReadsSubject /\ ThroughReference(Instr.id)) =>
        exec_simple(Instr, Cur.locals, Cur.globals) =
            exec_simple([Instr EXCEPT !.id = EndOf(Instr.id)], Cur.locals, Cur.globals)

\* C11: `jiji is keke` with jiji a Reference to the You baba ended the program with
\* ObjectAlreadyDefinedError
C11_Witness ==
    /\ status = "exit1"
    /\ error = "ObjectAlreadyDefinedError"
    /\ Instr = IsValue(jiji, keke, FALSE)
    /\ Get(Cur.locals, jiji) = Reference(baba)
    /\ Get(Cur.locals, baba).t = "You"
    /\ Get(Cur.locals, keke).t = "You"

\* the object a lookup of id meets first in a store: locals before globals
Binding(st, id) == IF id \in DOMAIN st.locals THEN st.locals[id] ELSE Get(st.globals, id)

\* following at most n Reference pointers from id leaves the References
RECURSIVE Ends(_, _, _)
Ends(st, id, n) ==
    IF Binding(st, id).t # "Reference" THEN TRUE
    ELSE IF n = 0 THEN FALSE
    ELSE Ends(st, Binding(st, id).pointer, n - 1)

\* C12: in the maps of every call frame, the chain of Reference pointers from
\* any bound identifier ends after at most as many links as there are
\* bound identifiers: no chain is cyclic
C12_NoCycle ==
    \A k \in 1..Len(stores) :
        LET bound == DOMAIN stores[k].locals \cup DOMAIN stores[k].globals
        IN  \A id \in bound : Ends(stores[k], id, Cardinality(bound))

\* C12: after `baba mimic baba` a lookup of baba never came back
C12_Witness ==
    /\ status = "abort"
    /\ error = "StackOverflow"
    /\ Get(Cur.locals, baba) = Reference(baba)

\* the instruction about to execute is HAS on an object of this type, with
\* a target that is defined
HasOn(type) ==
    /\ Running
    /\ HasInstr
    /\ Instr.op = "HasValue"
    /\ find_ref(Instr.id, Cur.locals, Cur.globals).t = type
    /\ ~Failed(find_value(Instr.target, Cur.locals, Cur.globals))

\* C13, HAS on a Level: the value of the target becomes the last parameter,
\* however many parameters and arguments the Level has
C13_HasLevel ==
    HasOn("Level") =>
        /\ status' = "running"
        /\ find_ref(Instr.id, CurAfter.locals, CurAfter.globals).parameters =
               Append(find_ref(Instr.id, Cur.locals, Cur.globals).parameters,
                      find_value(Instr.target, Cur.locals, Cur.globals))

\* C13, HAS on an Image: the same for the parameters of its constructor
C13_HasImage ==
    HasOn("Image") =>
        /\ status' = "running"
        /\ find_ref(Instr.id, CurAfter.locals, CurAfter.globals).constructor.parameters =
               Append(find_ref(Instr.id, Cur.locals, Cur.globals).constructor.parameters,
                      find_value(Instr.target, Cur.locals, Cur.globals))

\* C13, POWER on a Level with more parameters than arguments is refused
C13_PowerExcess ==
    (PowerOn("Level")
        /\ Len(find_ref(Instr.id, Cur.locals, Cur.globals).parameters) >
               Len(find_ref(Instr.id, Cur.locals, Cur.globals).arguments)) =>
        CallRefused

-----------------------------------------------------------------------------
(* C14: the reserved identifiers *)

\* what the reserved identifier id resolves to in the call frame st
Reserved(st, id) == find_ref(id, st.locals, st.globals)

\* C14: in every reachable state, in every call frame, identifier 0 resolves
\* to the EMPTY object and identifier 1 to the sentinel LEVEL object: no
\* instruction rebinds or shadows them.
C14_Reserved ==
    \A k \in 1..Len(stores) :
        /\ Reserved(stores[k], 0) = EMPTY
        /\ Reserved(stores[k], 1) = LEVEL

\* `g make empty` has popped a You out of the Group g and bound it to 0 in
\* the locals; the `g has empty` after it has pushed that You, not EMPTY
C14_Witness ==
    /\ scenario = 5
    /\ status = "running"
    /\ stack # <<>> /\ Top.pc = 6
    /\ Get(Cur.locals, 0) = You(0, 0, 0)
    /\ Get(Cur.locals, g) = Group(0, <<You(0, 0, 0)>>)

-----------------------------------------------------------------------------
(* C15: a Complex runs its Simple only when condition and prefix hold *)

\* a Complex is about to execute and its subject resolves to an object
AtComplex ==
    /\ Running /\ HasInstr /\ Instr.op = "Complex"
    /\ ~Failed(find_ref(Instr.instruction.id, Cur.locals, Cur.globals))

Subject == find_ref(Instr.instruction.id, Cur.locals, Cur.globals)

\* the outcome of the condition of the Complex at hand, taken alone
ConditionOf(complex) ==
    IF complex.conditions = None THEN "ok"
    ELSE eval_conditions(complex.conditions, Subject, Cur.locals, Cur.globals)

\* the outcome of the prefix of the Complex at hand, taken alone
PrefixOf(complex) ==
    complex.prefix = None \/ eval_prefix(complex.prefix, Subject, TRUE)

\* C15: when the condition of a Complex evaluates to false, or its prefix
\* does, the step of the Complex does not execute the Simple: the store, the
\* output and the status of the run are unchanged.
C15_ComplexGuard ==
    [][ (/\ AtComplex
         /\ ConditionOf(Instr) \in {"ok", "false"}
         /\ ~(ConditionOf(Instr) = "ok" /\ PrefixOf(Instr)))
        => (stores' = stores /\ out' = out /\ status' = status /\ ret' = ret) ]_vars

\* `idle baba facing keke is move` has moved baba although baba, turned up
\* at (1, 1), does not face keke at (2, 0)
C15_Witness ==
    /\ scenario = -2 /\ drawn = 2 /\ status = "running" /\ stack # <<>>
    /\ Top.body = <<Complex(Facing(FALSE, <<keke>>), Idle(FALSE), Move(baba, FALSE))>>
    /\ Top.pc = 2
    /\ Get(Cur.locals, baba) = You(1, 2, 1)
    /\ Get(Cur.locals, keke) = You(2, 0, 0)

-----------------------------------------------------------------------------
(* C16: the IDLE prefix *)

\* IDLE as stated: a Level that has as many parameters as arguments, an
\* Image whose constructor has all its parameters but self
IdleStated(obj) ==
    CASE obj.t = "Level" -> Len(obj.arguments) = Len(obj.parameters)
      [] obj.t = "Image" ->
            Len(obj.constructor.arguments) - 1 = Len(obj.constructor.parameters)
      [] OTHER -> FALSE

\* a Complex with the prefix IDLE and no condition is about to execute
AtIdle ==
    /\ AtComplex
    /\ Instr.conditions = None
    /\ Instr.prefix # None
    /\ Instr.prefix.prefix = "Idle"

\* C16: a Complex whose only guard is IDLE (sign false) executes its Simple
\* exactly when its subject is a Level with args.len() == params.len() or an
\* Image with constructor.args.len() - 1 == constructor.params.len(), and
\* never for another type; with sign true exactly in the other cases.
C16_Idle ==
    AtIdle =>
        exec_complex(Instr, Cur.locals, Cur.globals)
            = IF Xor(IdleStated(Subject), Instr.prefix.sign)
              THEN exec_simple(Instr.instruction, Cur.locals, Cur.globals)
              ELSE Res(Cur.locals, Cur.globals, NO_BREAK, None)

\* `idle fn has baba` has given fn its parameter: fn, of one argument and
\* no parameter, was not idle
C16_Witness ==
    /\ scenario = -2 /\ drawn = 1 /\ status = "running" /\ stack # <<>>
    /\ Top.body = <<Complex(None, Idle(FALSE), HasValue(fn, baba))>>
    /\ Top.pc = 2
    /\ Get(Cur.locals, fn) # None
    /\ Len(Get(Cur.locals, fn).arguments) = 1
    /\ Get(Cur.locals, fn).parameters = <<You(1, 1, 0)>>

-----------------------------------------------------------------------------
(* C17: FACING between You objects *)

\* S precedes T in the order the direction of S selects
Precedes(S, T) ==
    CASE S.dir = 0 -> S.x < T.x
      [] S.dir = 1 -> S.y < T.y
      [] S.dir = 2 -> S.x > T.x
      [] S.dir = 3 -> S.y > T.y

\* the objects the targets of a condition resolve to
TargetObjects(conds) ==
    [k \in 1..Len(conds.targets) |->
        find_ref(conds.targets[k].id, Cur.locals, Cur.globals)]

\* a Complex with the condition cond_type and no prefix is about to execute,
\* its subject is a You and its targets are identifiers of You objects
AtYouCondition(cond_type) ==
    /\ AtComplex
    /\ Instr.prefix = None
    /\ Instr.conditions # None
    /\ Instr.conditions.cond_type = cond_type
    /\ Subject.t = "You"
    /\ \A k \in 1..Len(Instr.conditions.targets) :
          /\ Instr.conditions.targets[k].kind = "Identifier"
          /\ ~Failed(TargetObjects(Instr.conditions)[k])
          /\ TargetObjects(Instr.conditions)[k].t = "You"

\* the step of the Complex at hand runs the Simple exactly when holds is true
RunsIff(holds) ==
    exec_complex(Instr, Cur.locals, Cur.globals)
        = IF holds THEN exec_simple(Instr.instruction, Cur.locals, Cur.globals)
          ELSE Res(Cur.locals, Cur.globals, NO_BREAK, None)

\* C17: `S FACING T1 AND ... AND Tn` on You objects runs the Simple exactly
\* when S precedes every Ti in the order of S.dir (dir 0: S.x < T.x, 1: S.y <
\* T.y, 2: S.x > T.x, 3: S.y > T.y); with sign true, exactly when S precedes
\* no Ti.  Equality of You objects, as `S ON T` tests it, compares x and y
\* and ignores dir.
C17_Facing ==
    /\ AtYouCondition("Facing") =>
          RunsIff(\A k \in 1..Len(Instr.conditions.targets) :
                      Xor(Precedes(Subject, TargetObjects(Instr.conditions)[k]),
                          Instr.conditions.sign))
    /\ AtYouCondition("On") =>
          RunsIff(\A k \in 1..Len(Instr.conditions.targets) :
                      Xor(/\ Subject.x = TargetObjects(Instr.conditions)[k].x
                          /\ Subject.y = TargetObjects(Instr.conditions)[k].y,
                          Instr.conditions.sign))

\* baba at (1, 1), turned down, faced keke at (2, 0) and jiji at (1, 0), and
\* `baba facing keke and jiji is move` has moved it down
C17_Witness ==
    /\ scenario = -2 /\ drawn = 3 /\ status = "running" /\ stack # <<>>
    /\ Top.body = <<Complex(Facing(FALSE, <<keke, jiji>>), None, Move(baba, FALSE))>>
    /\ Top.pc = 2
    /\ Get(Cur.locals, baba) = You(1, 0, 3)
    /\ Get(Cur.locals, keke) = You(2, 0, 0)
    /\ Get(Cur.locals, jiji) = You(1, 0, 1)

-----------------------------------------------------------------------------
(* C18: MOVE on u8 coordinates *)

\* `id is move` (or `id is not move`) is about to execute on a You
AtMove ==
    /\ Running /\ HasInstr /\ Instr.op = "Move"
    /\ ~Failed(find_ref(Instr.id, Cur.locals, Cur.globals))
    /\ find_ref(Instr.id, Cur.locals, Cur.globals).t = "You"

\* the step a MOVE makes on the axis of dir: right and up count up
Delta(dir, not) == IF Xor(dir \in {0, 1}, not) THEN 1 ELSE -1

\* you, moved by d along the axis of its direction, modulo 256
Shifted(you, d) ==
    IF you.dir \in {0, 2} THEN [you EXCEPT !.x = (@ + d) % Byte]
    ELSE [you EXCEPT !.y = (@ + d) % Byte]

\* the program MoveProgram(dir, not) is running
MoveDir == (scenario - 6) % 4
MoveNot == scenario >= 10
MovesDone == Top.pc - 1 - Len(MoveStart(MoveDir))

\* C18: MOVE changes the coordinate on the axis of dir by exactly 1 modulo
\* 256 and nothing else of the You, whatever dir and the coordinates are; a
\* MOVE followed by the opposite MOVE is the identity; and 256 MOVEs with the
\* same sign bring the You back to where it was.
C18_MoveStep ==
    AtMove =>
        LET you == find_ref(Instr.id, Cur.locals, Cur.globals)
        IN  /\ find_ref(Instr.id, CurAfter.locals, CurAfter.globals)
                 = Shifted(you, Delta(you.dir, Instr.not))
            /\ YouMove(YouMove(you, Instr.not), ~Instr.not) = you
            /\ YouMove(YouMove(you, ~Instr.not), Instr.not) = you

C18_MoveCycle ==
    (scenario \in 6..13 /\ stack # <<>> /\ MovesDone \in 0..Byte) =>
        /\ Get(Cur.locals, baba) = Shifted(You(0, 1, MoveDir),
                                           MovesDone * Delta(MoveDir, MoveNot))
        /\ MovesDone = Byte => Get(Cur.locals, baba) = You(0, 1, MoveDir)

C18_Move == [][C18_MoveStep]_vars /\ []C18_MoveCycle

\* 256 times `baba is not move`, facing down, have taken baba from (0, 1) up
\* the y axis, through 255 and 0, back to (0, 1)
C18_Witness ==
    /\ scenario = 13 /\ status = "running" /\ stack # <<>>
    /\ MovesDone = Byte
    /\ Get(Cur.locals, baba) = You(0, 1, 3)

-----------------------------------------------------------------------------
(* C19: IS between objects *)

\* `a is b` (or `a is not b`) is about to execute and b resolves to an object
AtIsValue ==
    /\ Running /\ HasInstr /\ Instr.op = "IsValue"
    /\ ~Failed(find_ref(Instr.target, Cur.locals, Cur.globals))

\* a == b: the same type and, for a You, the same x and y
SameValue(a, b) ==
    /\ a.t = b.t
    /\ IF b.t = "You" THEN a.x = b.x /\ a.y = b.y ELSE a = b

-----------------------------------------------------------------------------
(* C20: IS with a sum of targets *)

\* the You objects an IsSum names, where a target is an identifier
SumTarget(ins, k) == find_value(ins.targets[k].id, Cur.locals, Cur.globals)

\* `dest is t1 and ... and tn` is about to execute, every identifier among
\* the targets is a You, and dest is a You or is not defined
AtIsSum ==
    /\ Running /\ HasInstr /\ Instr.op = "IsSum"
    /\ \A k \in 1..Len(Instr.targets) :
          \/ Instr.targets[k].kind = "All"
          \/ /\ Instr.targets[k].kind = "Identifier"
             /\ ~Failed(SumTarget(Instr, k))
             /\ SumTarget(Instr, k).t = "You"
    /\ Binding(Cur, Instr.id).t \in {"You", "None"}

\* what the target k adds to the sum of field: an identifier counts with its
\* sign, ALL, every You of locals and globals, with the opposite sign
Term(ins, k, field) ==
    IF ins.targets[k].kind = "Identifier" THEN
        (IF ins.nots[k] THEN -1 ELSE 1)
            * (IF field = "x" THEN SumTarget(ins, k).x ELSE SumTarget(ins, k).y)
    ELSE
        (IF ins.nots[k] THEN 1 ELSE -1)
            * (all_sum(Cur.locals, DOMAIN Cur.locals, field)
                 + all_sum(Cur.globals, DOMAIN Cur.globals, field))

RECURSIVE TermSum(_, _, _)
TermSum(ins, k, field) ==
    IF k = 0 THEN 0 ELSE TermSum(ins, k - 1, field) + Term(ins, k, field)

\* C20: IsSum sets dest.x and dest.y to the sum modulo 256 of the targets,
\* an identifier added when its sign is false and subtracted when true, ALL
\* (the sum of every You in locals and globals) subtracted when its sign is
\* false and added when true; an absent dest is created as a You with dir 0,
\* a You dest keeps its dir; every other binding, the targets among them, is
\* unchanged.
C20_IsSum ==
    [][ AtIsSum =>
          LET dest == Binding(Cur, Instr.id)
              sum_x == TermSum(Instr, Len(Instr.targets), "x") % Byte
              sum_y == TermSum(Instr, Len(Instr.targets), "y") % Byte
          IN  /\ status' = "running"
              /\ Binding(CurAfter, Instr.id)
                    = IF dest = None THEN You(sum_x, sum_y, 0)
                      ELSE [dest EXCEPT !.x = sum_x, !.y = sum_y]
              /\ \A i \in (DOMAIN Cur.locals) \ {Instr.id} :
                    Get(CurAfter.locals, i) = Cur.locals[i]
              /\ \A i \in (DOMAIN Cur.globals) \ {Instr.id} :
                    Get(CurAfter.globals, i) = Cur.globals[i] ]_vars

\* `jiji is not all`, with baba at (1, 0), keke at (0, 2) and v at (255, 0),
\* has created jiji at (0, 2): 1 + 0 + 255 is 0 modulo 256
C20_Witness ==
    /\ scenario = -3 /\ drawn = 1 /\ status = "running" /\ stack # <<>>
    /\ Top.body = <<IsSum(jiji, <<NounAll>>, <<TRUE>>)>>
    /\ Top.pc = 2
    /\ Get(Cur.locals, jiji) = You(0, 2, 0)
    /\ Get(Cur.locals, baba) = You(1, 0, 0)
    /\ Get(Cur.globals, v) = You(255, 0, 0)

-----------------------------------------------------------------------------
(* Errors *)

\* ErrorType (error_handler.rs 8-20)
ErrorTypes ==
    {"FileError", "LexerError", "StatementParserError", "InstructionParserError",
     "InstructionValidationError", "RuntimeError", "ObjectNotDefinedError",
     "ObjectAlreadyDefinedError", "TypeError", "ArgumentError", "ConditionError"}

\* an error of the error handler has been raised
Raised == error \in ErrorTypes

-----------------------------------------------------------------------------
(* The lexer (lexer.rs, token.rs) *)

\* number of bytes of a source
MaxBytes == 6

\* the bytes a source is made of: letters in both cases, the slash and the two
\* line terminators. tokenize tells word bytes, the slash, the terminators and
\* every other byte apart; a blank is read like a terminator outside a comment
\* and like a letter inside one.
Bytes == {"o", "n", "N", "/", "\n", "\r"}

\* the upper case of each ASCII letter
Uppercase ==
    [a |-> "A", b |-> "B", c |-> "C", d |-> "D", e |-> "E", f |-> "F", g |-> "G", h |-> "H", i |-> "I", j |-> "J", k |-> "K", l |-> "L", m |-> "M",
     n |-> "N", o |-> "O", p |-> "P", q |-> "Q", r |-> "R", s |-> "S", t |-> "T", u |-> "U", v |-> "V", w |-> "W", x |-> "X", y |-> "Y", z |-> "Z"]

Digits == {"0", "1", "2", "3", "4", "5", "6", "7", "8", "9"}

\* char::to_lowercase of an ASCII byte (lexer.rs 66-68)
to_lowercase(c) ==
    IF \E l \in DOMAIN Uppercase : Uppercase[l] = c
    THEN CHOOSE l \in DOMAIN Uppercase : Uppercase[l] = c
    ELSE c

is_ascii_alphanumeric(c) ==
    \/ c \in DOMAIN Uppercase
    \/ \E l \in DOMAIN Uppercase : Uppercase[l] = c
    \/ c \in Digits

\* c.is_ascii_alphanumeric() || c == '_' (lexer.rs 74, 89, 111)
is_word(c) == is_ascii_alphanumeric(c) \/ c = "_"

\* the word as it was read, with no change of case
to_ascii_lowercase_raw(word) == word

\* str::to_ascii_lowercase (token.rs 101)
to_ascii_lowercase(word) == [k \in 1..Len(word) |-> to_lowercase(word[k])]

\* Token (token.rs 74-83)
Token(class, kind) == [token |-> class, value |-> [kind |-> kind]]
TokenNoun(noun) == [token |-> "Noun", value |-> noun]
TokenNot == [token |-> "Not", value |-> None]
TokenAnd == [token |-> "And", value |-> None]

\* the keywords of parse (token.rs 102-152)
Keywords ==
    {[word |-> <<"a", "l", "l">>, token |-> TokenNoun(NounAll)],
     [word |-> <<"e", "m", "p", "t", "y">>, token |-> TokenNoun(NounEmpty)],
     [word |-> <<"l", "e", "v", "e", "l">>, token |-> TokenNoun(NounLevel)],
     [word |-> <<"i", "m", "a", "g", "e">>, token |-> TokenNoun(NounImage)],
     [word |-> <<"e", "a", "t">>, token |-> Token("Verb", "Eat")],
     [word |-> <<"f", "e", "a", "r">>, token |-> Token("Verb", "Fear")],
     [word |-> <<"f", "o", "l", "l", "o", "w">>, token |-> Token("Verb", "Follow")],
     [word |-> <<"h", "a", "s">>, token |-> Token("Verb", "Has")],
     [word |-> <<"i", "s">>, token |-> Token("Verb", "Is")],
     [word |-> <<"m", "a", "k", "e">>, token |-> Token("Verb", "Make")],
     [word |-> <<"m", "i", "m", "i", "c">>, token |-> Token("Verb", "Mimic")],
     [word |-> <<"p", "l", "a", "y">>, token |-> Token("Verb", "Play")],
     [word |-> <<"y", "o", "u">>, token |-> Token("Property", "You")],
     [word |-> <<"y", "o", "u", "2">>, token |-> Token("Property", "You2")],
     [word |-> <<"g", "r", "o", "u", "p">>, token |-> Token("Property", "Group")],
     [word |-> <<"t", "e", "l", "e">>, token |-> Token("Property", "Tele")],
     [word |-> <<"f", "l", "o", "a", "t">>, token |-> Token("Property", "Float")],
     [word |-> <<"t", "e", "x", "t">>, token |-> Token("Property", "Text")],
     [word |-> <<"w", "o", "r", "d">>, token |-> Token("Property", "Word")],
     [word |-> <<"w", "i", "n">>, token |-> Token("Property", "Win")],
     [word |-> <<"d", "e", "f", "e", "a", "t">>, token |-> Token("Property", "Defeat")],
     [word |-> <<"s", "l", "e", "e", "p">>, token |-> Token("Property", "Sleep")],
     [word |-> <<"d", "o", "n", "e">>, token |-> Token("Property", "Done")],
     [word |-> <<"m", "o", "v", "e">>, token |-> Token("Property", "Move")],
     [word |-> <<"t", "u", "r", "n">>, token |-> Token("Property", "Turn")],
     [word |-> <<"f", "a", "l", "l">>, token |-> Token("Property", "Fall")],
     [word |-> <<"m", "o", "r", "e">>, token |-> Token("Property", "More")],
     [word |-> <<"r", "i", "g", "h", "t">>, token |-> Token("Property", "Right")],
     [word |-> <<"u", "p">>, token |-> Token("Property", "Up")],
     [word |-> <<"l", "e", "f", "t">>, token |-> Token("Property", "Left")],
     [word |-> <<"d", "o", "w", "n">>, token |-> Token("Property", "Down")],
     [word |-> <<"s", "h", "i", "f", "t">>, token |-> Token("Property", "Shift")],
     [word |-> <<"s", "i", "n", "k">>, token |-> Token("Property", "Sink")],
     [word |-> <<"s", "w", "a", "p">>, token |-> Token("Property", "Swap")],
     [word |-> <<"p", "o", "w", "e", "r">>, token |-> Token("Property", "Power")],
     [word |-> <<"i", "d", "l", "e">>, token |-> Token("Prefix", "Idle")],
     [word |-> <<"l", "o", "n", "e", "l", "y">>, token |-> Token("Prefix", "Lonely")],
     [word |-> <<"a", "n", "d">>, token |-> TokenAnd],
     [word |-> <<"n", "o", "t">>, token |-> TokenNot],
     [word |-> <<"f", "a", "c", "i", "n", "g">>, token |-> Token("Conditional", "Facing")],
     [word |-> <<"n", "e", "a", "r">>, token |-> Token("Conditional", "Near")],
     [word |-> <<"o", "n">>, token |-> Token("Conditional", "On")],
     [word |-> <<"w", "i", "t", "h", "o", "u", "t">>, token |-> Token("Conditional", "Without")]}

\* parse (token.rs 95-186): the token of a word, and the identifier table after
parse(buffer, identifiers) ==
    IF Len(buffer) = 0 THEN [token |-> None, identifiers |-> identifiers]
    ELSE
        LET id == to_ascii_lowercase(buffer)
            keyword == {k \in Keywords : k.word = id}
            existing == {value \in DOMAIN identifiers : identifiers[value] = id}
            new_id == Cardinality(DOMAIN identifiers)
        IN  IF keyword # {}
            THEN [token |-> (CHOOSE k \in keyword : TRUE).token,
                  identifiers |-> identifiers]
            ELSE IF existing = {}
            THEN [token |-> TokenNoun(NounIdentifier(new_id)),
                  identifiers |-> Insert(identifiers, new_id, id)]
            ELSE [token |-> TokenNoun(NounIdentifier(CHOOSE value \in existing : TRUE)),
                  identifiers |-> identifiers]

\* the table tokenize starts from (lexer.rs 58-61)
Seeded ==
    Insert(Insert(Insert(EmptyMap, 0, <<"e", "m", "p", "t", "y">>),
                  1, <<"l", "e", "v", "e", "l">>),
           2, <<"i", "m", "a", "g", "e">>)

\* the interpreter has not started
NotExecuting ==
    /\ scenario = 0
    /\ stack = <<>>
    /\ stores = <<>>
    /\ ret = NoRet
    /\ drawn = 0
    /\ status = "running"
    /\ error = "none"
    /\ out = <<>>

\* tokenize (lexer.rs 57-63). `spans` is a history of the model: for each token
\* of `out`, the first and last index (from 1) of the bytes it was parsed from.
LexInit ==
    /\ lexer = [state |-> "Separator", buffer |-> <<>>, word_start |-> 0,
                out |-> <<>>, identifiers |-> Seeded, spans |-> <<>>]
    /\ parser = Off
    /\ builder = Off
    /\ NotExecuting

\* the index (from 0) of the byte read next
LexIndex == Len(lexer.buffer)

\* for (i, &byte) in buffer.iter().enumerate() (lexer.rs 65)
Lexing(state) ==
    /\ status = "running"
    /\ lexer.state = state
    /\ LexIndex < MaxBytes

\* the word buffer[word_start..end] becomes a token (lexer.rs 95-106, 137-149)
LexPush(next, end) ==
    LET word == SubSeq(next.buffer, next.word_start + 1, end)
        parsed == parse(word, next.identifiers)
    IN  IF parsed.token = None
        THEN Throw("LexerError", <<>>)
        ELSE /\ lexer' = [next EXCEPT !.out = Append(@, parsed.token),
                                      !.identifiers = parsed.identifiers,
                                      !.spans = Append(@, <<next.word_start + 1, end>>),
                                      !.word_start = end + 1]
             /\ UNCHANGED <<parser, builder, scenario, stack, stores, ret, drawn,
                            status, error, out>>

LexStay(next) ==
    /\ lexer' = next
    /\ UNCHANGED <<parser, builder, scenario, stack, stores, ret, drawn,
                   status, error, out>>

\* State::Separator (lexer.rs 72-85)
LexSeparator ==
    /\ Lexing("Separator")
    /\ \E byte \in Bytes :
        LET c == to_lowercase(byte)
            read == [lexer EXCEPT !.buffer = Append(@, byte)]
        IN  IF is_word(c) THEN LexStay([read EXCEPT !.state = "Word"])
            ELSE IF c = "/"
            THEN LexStay([read EXCEPT !.state = "MaybeComment", !.word_start = @ + 1])
            ELSE LexStay([read EXCEPT !.word_start = @ + 1])

\* State::Word (lexer.rs 87-108)
LexWord ==
    /\ Lexing("Word")
    /\ \E byte \in Bytes :
        LET c == to_lowercase(byte)
            read == [lexer EXCEPT !.buffer = Append(@, byte)]
        IN  IF is_word(c) THEN LexStay(read)
            ELSE LexPush([read EXCEPT !.state = "Separator"], LexIndex)

\* State::MaybeComment (lexer.rs 110-122)
LexMaybeComment ==
    /\ Lexing("MaybeComment")
    /\ \E byte \in Bytes :
        LET c == to_lowercase(byte)
            read == [lexer EXCEPT !.buffer = Append(@, byte)]
        IN  IF is_word(c) THEN LexStay([read EXCEPT !.state = "Word"])
            ELSE IF c = "/"
            THEN LexStay([read EXCEPT !.state = "Comment", !.word_start = @ + 1])
            ELSE LexStay([read EXCEPT !.word_start = @ + 1])

\* State::Comment (lexer.rs 124-132)
LexComment ==
    /\ Lexing("Comment")
    /\ \E byte \in Bytes :
        LET c == to_lowercase(byte)
            read == [lexer EXCEPT !.buffer = Append(@, byte)]
        IN  IF c = "\n" \/ c = "\r"
            THEN LexStay([read EXCEPT !.state = "Separator", !.word_start = @ + 1])
            ELSE LexStay([read EXCEPT !.word_start = @ + 1])

\* the end of the source (lexer.rs 136-154)
LexEOF ==
    /\ status = "running"
    /\ lexer.state \in {"Separator", "Word", "MaybeComment", "Comment"}
    /\ IF lexer.state = "Word"
       THEN LexPush([lexer EXCEPT !.state = "EOF"], LexIndex)
       ELSE LexStay([lexer EXCEPT !.state = "EOF"])

LexNext ==
    \/ LexSeparator
    \/ LexWord
    \/ LexMaybeComment
    \/ LexComment
    \/ LexEOF

LexSpec == LexInit /\ [][LexNext]_vars

\* a line terminator of a comment (lexer.rs 125)
Terminators == {"\n", "\r"}

\* the byte at index k (from 1) of the source lies between a `//` and the next
\* line terminator
InComment(k) ==
    \E p \in 1..(k - 2) :
        /\ lexer.buffer[p] = "/"
        /\ lexer.buffer[p + 1] = "/"
        /\ \A q \in (p + 2)..k : lexer.buffer[q] \notin Terminators

\* C22: `//` starts a comment through the end of the line: no token is parsed
\* from a byte between a `//` and the next line terminator, whatever byte
\* precedes the `//`, and after the terminator of a comment the lexer is
\* between words again.
C22_Comment ==
    /\ \A s \in 1..Len(lexer.spans) :
          \A k \in lexer.spans[s][1]..lexer.spans[s][2] : ~InComment(k)
    /\ \A k \in 1..Len(lexer.buffer) :
          (k > 1 /\ InComment(k - 1) /\ lexer.buffer[k] \in Terminators
           /\ k = Len(lexer.buffer) /\ lexer.state # "EOF")
              => lexer.state = "Separator"

\* C22: the source `o//n` gave two tokens, the second from the n of the comment
C22_Witness ==
    /\ lexer.state = "EOF"
    /\ lexer.buffer = <<"o", "/", "/", "n">>
    /\ lexer.out = <<TokenNoun(NounIdentifier(3)), TokenNoun(NounIdentifier(4))>>
    /\ lexer.spans = <<<<1, 1>>, <<4, 4>>>>

\* a word with every upper case letter replaced by its lower case
Lowered(word) == [k \in 1..Len(word) |-> to_lowercase(word[k])]

IsKeyword(word) == \E k \in Keywords : k.word = word

\* the s-th word tokenize handed to parse, lowercased
LexedWord(s) == Lowered(SubSeq(lexer.buffer, lexer.spans[s][1], lexer.spans[s][2]))

\* the distinct words other than keywords among the first n words, in order
\* of first appearance
RECURSIVE FirstSeen(_)
FirstSeen(n) ==
    IF n = 0 THEN <<>>
    ELSE LET seen == FirstSeen(n - 1)
             word == LexedWord(n)
         IN  IF IsKeyword(word) \/ \E k \in 1..Len(seen) : seen[k] = word
             THEN seen
             ELSE Append(seen, word)

\* the id of a word is 2 plus its place among the words seen first
C23_Bijection ==
    LET seen == FirstSeen(Len(lexer.spans))
        table == lexer.identifiers
    IN  /\ DOMAIN table = 0..(2 + Len(seen))
        /\ \A k \in 1..Len(seen) : table[2 + k] = seen[k]
        /\ \A i, j \in DOMAIN table : i # j => table[i] # table[j]
        /\ \A i \in DOMAIN table : i >= 3 => ~IsKeyword(table[i])
        /\ Len(lexer.out) = Len(lexer.spans)
        /\ \A s \in 1..Len(lexer.out) :
              IF IsKeyword(LexedWord(s))
              THEN lexer.out[s] = (CHOOSE k \in Keywords : k.word = LexedWord(s)).token
              ELSE \E k \in 1..Len(seen) :
                      /\ seen[k] = LexedWord(s)
                      /\ lexer.out[s] = TokenNoun(NounIdentifier(2 + k))

\* no entry of the table is removed or renumbered
C23_Stable ==
    \A id \in DOMAIN lexer.identifiers :
        /\ id \in DOMAIN lexer.identifiers'
        /\ lexer.identifiers'[id] = lexer.identifiers[id]

\* C23: the identifier table is a stable bijection: the k-th distinct word that
\* is not a keyword, in order of first appearance and compared after
\* lowercasing, has the id 2 + k (3, 4, 5, ...), every occurrence of a word in
\* any letter case yields the token of that id, keywords yield their own token
\* and never enter the table, and no entry is ever removed or renumbered.
C23_Table == []C23_Bijection /\ [][C23_Stable]_vars

\* C23: the source `N on n`, one word a line: n has the id 3 in both cases
\* and `on` is the keyword, which left the table alone
C23_Witness ==
    /\ lexer.state = "EOF"
    /\ lexer.buffer = <<"N", "\n", "o", "n", "\n", "n">>
    /\ lexer.out = <<TokenNoun(NounIdentifier(3)), Token("Conditional", "On"),
                     TokenNoun(NounIdentifier(3))>>
    /\ DOMAIN lexer.identifiers = 0..3
    /\ lexer.identifiers[3] = <<"n">>

-----------------------------------------------------------------------------
(* The statement parser (statement_parser.rs) *)

\* number of tokens of a token stream
MaxTokens == 8

Some(value) == [t |-> "Some", v |-> value]

\* the tokens a token stream is made of
Tokens ==
    {TokenNoun(NounIdentifier(3)), TokenNoun(NounIdentifier(4)),
     Token("Verb", "Is"), Token("Verb", "Has"),
     Token("Property", "You"), Token("Property", "Up"),
     TokenNot, TokenAnd,
     Token("Conditional", "On"), Token("Conditional", "Facing"),
     Token("Prefix", "Idle")}

\* Target (statement_parser.rs 23-27)
TargetNoun(noun) == [target |-> "Noun", value |-> noun]
TargetProperty(prop) == [target |-> "Property", value |-> prop]

\* the slices action_targets[start_index..i] that the IS branch of
\* append_statement pushes, one at each target that is not a noun and one for
\* what is left at the end (63-113); i counts from 1, start_index from 0
RECURSIVE is_slices(_, _, _)
is_slices(action_targets, i, start_index) ==
    IF i > Len(action_targets)
    THEN IF start_index # Len(action_targets)
         THEN << SubSeq(action_targets, start_index + 1, Len(action_targets)) >>
         ELSE <<>>
    ELSE IF action_targets[i].target = "Noun"
    THEN is_slices(action_targets, i + 1, start_index)
    ELSE << SubSeq(action_targets, start_index + 1, i - 1) >>
         \o is_slices(action_targets, i + 1, i - 1)

\* append_statement (statement_parser.rs 46-141) on the locals p of parse
append_statement(p) ==
    LET statement(targets, signs, target, sign) ==
            [subject |-> p.subject.v,
             major_cond_type |-> p.major_cond,
             major_cond_sign |-> Some(p.major_cond_sign),
             major_cond_targets |-> p.major_cond_targets,
             minor_cond_type |-> p.minor_cond,
             minor_cond_sign |-> Some(p.minor_cond_sign),
             minor_cond_target |-> p.minor_cond_target,
             action_type |-> p.action_type.v,
             action_targets |-> targets,
             action_target |-> target,
             action_signs |-> signs,
             action_sign |-> sign]
        slices == is_slices(p.action_targets, 1, 0)
    IN  IF p.action_type.v.kind = "Is"
        THEN p.out \o [k \in 1..Len(slices) |->
                          statement(Some(slices[k]), Some(p.action_signs), None, None)]
        ELSE p.out \o [k \in 1..Len(p.action_targets) |->
                          statement(None, None, Some(p.action_targets[k]),
                                    Some(p.action_signs[k]))]

\* parse (statement_parser.rs 143-158): its locals before the first token.
\* `tokens` holds the tokens read so far, `eof` tells the loop has ended.
ParseInit ==
    /\ parser = [state |-> "Blank", tokens |-> <<>>, eof |-> FALSE, out |-> <<>>,
                 subject |-> None,
                 major_cond |-> None, major_cond_sign |-> FALSE,
                 major_cond_targets |-> <<>>,
                 minor_cond |-> None, minor_cond_sign |-> FALSE,
                 minor_cond_target |-> None,
                 action_type |-> None, action_targets |-> <<>>,
                 action_sign |-> FALSE, action_signs |-> <<>>]
    /\ lexer = Off
    /\ builder = Off
    /\ NotExecuting

\* for token in tokens (160): the automaton is in this state
Parsing(state) ==
    /\ status = "running"
    /\ ~parser.eof
    /\ parser.state = state
    /\ Len(parser.tokens) < MaxTokens

Read(token) == [parser EXCEPT !.tokens = Append(@, token)]

\* the token was accepted
ParseGo(next) ==
    /\ parser' = next
    /\ UNCHANGED <<lexer, builder, scenario, stack, stores, ret, drawn,
                   status, error, out>>

\* throw_error(ErrorType::StatementParserError, ...)
ParseThrow(next) ==
    /\ parser' = next
    /\ status' = ExitStatus("StatementParserError")
    /\ error' = "StatementParserError"
    /\ UNCHANGED <<lexer, builder, scenario, stack, stores, ret, drawn, out>>

VerbState(verb) == IF verb.kind = "Is" THEN "MajIs" ELSE "MajAct"

IsDirection(prop) == prop.kind \in {"Up", "Down", "Left", "Right"}

\* a verb starts the action (180-188, 278-286, 298-306, 449-457)
ReadVerb(read, verb) ==
    ParseGo([read EXCEPT !.state = VerbState(verb), !.action_type = Some(verb)])

\* a conditional word starts the major condition (190-199, 210-219)
ReadMajCond(read, cond) ==
    ParseGo([read EXCEPT
        !.state = IF cond.kind = "Facing" THEN "MajCondFacing" ELSE "MajCond",
        !.major_cond = Some(cond)])

\* a conditional word starts the minor condition (323-332, 364-373, 387-396)
ReadMinCond(read, cond) ==
    ParseGo([read EXCEPT
        !.state = IF cond.kind = "Facing" THEN "MinCondFacing" ELSE "MinCond",
        !.minor_cond = Some(cond)])

\* a target of the action is pushed with the current sign
PushTarget(read, target, state) ==
    ParseGo([read EXCEPT !.action_signs = Append(@, read.action_sign),
                         !.action_targets = Append(@, target),
                         !.state = state])

FlipAction(read, state) ==
    ParseGo([read EXCEPT !.action_sign = ~@, !.state = state])

\* the statement is complete and a noun starts the next one (506-526, 539-559)
NextStatement(read, noun) ==
    ParseGo([read EXCEPT !.out = append_statement(read),
                         !.action_targets = <<>>,
                         !.action_signs = <<>>,
                         !.major_cond_targets = <<>>,
                         !.major_cond_sign = FALSE,
                         !.subject = Some(noun),
                         !.state = "Subject"])

\* AND and a verb: the major action is complete, a minor action starts
\* (581-603, 635-652)
MinorAction(read, verb) ==
    ParseGo([read EXCEPT !.out = append_statement(read),
                         !.action_type = Some(verb),
                         !.action_targets = <<>>,
                         !.action_signs = <<>>,
                         !.state = "ExpectsMinActTarget"])

\* the target of a minor action completes its statement (699-745)
MinorTarget(read, target) ==
    LET pushed == [read EXCEPT !.action_signs = Append(@, read.action_sign),
                               !.action_targets = Append(@, target)]
    IN  ParseGo([pushed EXCEPT !.out = append_statement(pushed),
                               !.action_signs = <<>>,
                               !.action_targets = <<>>,
                               !.major_cond_targets = <<>>,
                               !.major_cond_sign = FALSE,
                               !.state = "Blank"])

ParseBlank ==
    /\ Parsing("Blank")
    /\ \E token \in Tokens :
        LET read == Read(token)
        IN  IF token.token = "Noun"
            THEN ParseGo([read EXCEPT !.subject = Some(token.value),
                                      !.state = "Subject"])
            ELSE ParseThrow(read)

ParseSubject ==
    /\ Parsing("Subject")
    /\ \E token \in Tokens :
        LET read == Read(token)
        IN  CASE token.token = "Verb" -> ReadVerb(read, token.value)
              [] token.token = "Conditional" -> ReadMajCond(read, token.value)
              [] token.token = "Not" ->
                    ParseGo([read EXCEPT !.major_cond_sign = ~@,
                                         !.state = "ExpectsMajCond"])
              [] OTHER -> ParseThrow(read)

ParseExpectsMajCond ==
    /\ Parsing("ExpectsMajCond")
    /\ \E token \in Tokens :
        LET read == Read(token)
        IN  CASE token.token = "Conditional" -> ReadMajCond(read, token.value)
              [] token.token = "Not" ->
                    ParseGo([read EXCEPT !.major_cond_sign = ~@,
                                         !.state = "ExpectsMajCond"])
              [] OTHER -> ParseThrow(read)

ParseMajCond ==
    /\ Parsing("MajCond")
    /\ \E token \in Tokens :
        LET read == Read(token)
        IN  IF token.token = "Noun"
            THEN ParseGo([read EXCEPT
                     !.major_cond_targets = Append(@, TargetNoun(token.value)),
                     !.state = "MajCondTarget"])
            ELSE ParseThrow(read)

ParseMajCondFacing ==
    /\ Parsing("MajCondFacing")
    /\ \E token \in Tokens :
        LET read == Read(token)
        IN  CASE token.token = "Noun" ->
                    ParseGo([read EXCEPT
                        !.major_cond_targets = Append(@, TargetNoun(token.value)),
                        !.state = "MajCondFacingTarget"])
              [] token.token = "Property" /\ IsDirection(token.value) ->
                    ParseGo([read EXCEPT
                        !.major_cond_targets = Append(@, TargetProperty(token.value)),
                        !.state = "MajCondFacingTarget"])
              [] OTHER -> ParseThrow(read)

ParseMajCondTarget ==
    /\ Parsing("MajCondTarget")
    /\ \E token \in Tokens :
        LET read == Read(token)
        IN  CASE token.token = "Verb" -> ReadVerb(read, token.value)
              [] token.token = "And" -> ParseGo([read EXCEPT !.state = "CondAnd"])
              [] OTHER -> ParseThrow(read)

ParseMajCondFacingTarget ==
    /\ Parsing("MajCondFacingTarget")
    /\ \E token \in Tokens :
        LET read == Read(token)
        IN  CASE token.token = "Verb" -> ReadVerb(read, token.value)
              [] token.token = "And" ->
                    ParseGo([read EXCEPT !.state = "CondFacingAnd"])
              [] OTHER -> ParseThrow(read)

ParseCondAnd ==
    /\ Parsing("CondAnd")
    /\ \E token \in Tokens :
        LET read == Read(token)
        IN  CASE token.token = "Noun" ->
                    ParseGo([read EXCEPT
                        !.major_cond_targets = Append(@, TargetNoun(token.value)),
                        !.state = "MajCondTarget"])
              [] token.token = "Conditional" -> ReadMinCond(read, token.value)
              [] token.token = "Not" ->
                    ParseGo([read EXCEPT !.minor_cond_sign = ~@,
                                         !.state = "ExpectsMinCond"])
              [] OTHER -> ParseThrow(read)

ParseCondFacingAnd ==
    /\ Parsing("CondFacingAnd")
    /\ \E token \in Tokens :
        LET read == Read(token)
        IN  CASE token.token = "Noun" ->
                    ParseGo([read EXCEPT
                        !.major_cond_targets = Append(@, TargetNoun(token.value)),
                        !.state = "MajCondTarget"])
              [] token.token = "Property" /\ IsDirection(token.value) ->
                    ParseGo([read EXCEPT
                        !.major_cond_targets = Append(@, TargetProperty(token.value)),
                        !.state = "MajCondFacingTarget"])
              [] token.token = "Conditional" -> ReadMinCond(read, token.value)
              [] token.token = "Not" ->
                    ParseGo([read EXCEPT !.minor_cond_sign = ~@,
                                         !.state = "ExpectsMinCond"])
              [] OTHER -> ParseThrow(read)

ParseExpectsMinCond ==
    /\ Parsing("ExpectsMinCond")
    /\ \E token \in Tokens :
        LET read == Read(token)
        IN  CASE token.token = "Conditional" -> ReadMinCond(read, token.value)
              [] token.token = "Not" ->
                    ParseGo([read EXCEPT !.minor_cond_sign = ~@,
                                         !.state = "ExpectsMinCond"])
              [] OTHER -> ParseThrow(read)

ParseMinCond ==
    /\ Parsing("MinCond")
    /\ \E token \in Tokens :
        LET read == Read(token)
        IN  IF token.token = "Noun"
            THEN ParseGo([read EXCEPT
                     !.minor_cond_target = Some(TargetNoun(token.value)),
                     !.state = "MinCondTarget"])
            ELSE ParseThrow(read)

ParseMinCondFacing ==
    /\ Parsing("MinCondFacing")
    /\ \E token \in Tokens :
        LET read == Read(token)
        IN  CASE token.token = "Noun" ->
                    ParseGo([read EXCEPT
                        !.minor_cond_target = Some(TargetNoun(token.value)),
                        !.state = "MinCondTarget"])
              [] token.token = "Property" /\ IsDirection(token.value) ->
                    ParseGo([read EXCEPT
                        !.minor_cond_target = Some(TargetProperty(token.value)),
                        !.state = "MinCondTarget"])
              [] OTHER -> ParseThrow(read)

ParseMinCondTarget ==
    /\ Parsing("MinCondTarget")
    /\ \E token \in Tokens :
        LET read == Read(token)
        IN  IF token.token = "Verb" THEN ReadVerb(read, token.value)
            ELSE ParseThrow(read)

ParseMajAct ==
    /\ Parsing("MajAct")
    /\ \E token \in Tokens :
        LET read == Read(token)
        IN  CASE token.token = "Noun" ->
                    PushTarget(read, TargetNoun(token.value), "MajActTarget")
              [] token.token = "Not" -> FlipAction(read, "MajAct")
              [] OTHER -> ParseThrow(read)

ParseMajIs ==
    /\ Parsing("MajIs")
    /\ \E token \in Tokens :
        LET read == Read(token)
        IN  CASE token.token = "Property" ->
                    PushTarget(read, TargetProperty(token.value), "MajIsTarget")
              [] token.token = "Noun" ->
                    PushTarget(read, TargetNoun(token.value), "MajIsTarget")
              [] token.token = "Not" -> FlipAction(read, "MajIs")
              [] OTHER -> ParseThrow(read)

ParseMajActTarget ==
    /\ Parsing("MajActTarget")
    /\ \E token \in Tokens :
        LET read == Read(token)
        IN  CASE token.token = "Noun" -> NextStatement(read, token.value)
              [] token.token = "And" -> ParseGo([read EXCEPT !.state = "ActAnd"])
              [] OTHER -> ParseThrow(read)

ParseMajIsTarget ==
    /\ Parsing("MajIsTarget")
    /\ \E token \in Tokens :
        LET read == Read(token)
        IN  CASE token.token = "Noun" -> NextStatement(read, token.value)
              [] token.token = "And" -> ParseGo([read EXCEPT !.state = "IsAnd"])
              [] OTHER -> ParseThrow(read)

ParseActAnd ==
    /\ Parsing("ActAnd")
    /\ \E token \in Tokens :
        LET read == Read(token)
        IN  CASE token.token = "Noun" ->
                    PushTarget(read, TargetNoun(token.value), "MajActTarget")
              [] token.token = "Not" -> FlipAction(read, "ExpectsMajActTarget")
              [] token.token = "Verb" -> MinorAction(read, token.value)
              [] OTHER -> ParseThrow(read)

ParseIsAnd ==
    /\ Parsing("IsAnd")
    /\ \E token \in Tokens :
        LET read == Read(token)
        IN  CASE token.token = "Noun" ->
                    PushTarget(read, TargetNoun(token.value), "MajIsTarget")
              [] token.token = "Property" ->
                    PushTarget(read, TargetProperty(token.value), "MajIsTarget")
              [] token.token = "Not" -> FlipAction(read, "ExpectsMajIsTarget")
              [] token.token = "Verb" -> MinorAction(read, token.value)
              [] OTHER -> ParseThrow(read)

ParseExpectsMajActTarget ==
    /\ Parsing("ExpectsMajActTarget")
    /\ \E token \in Tokens :
        LET read == Read(token)
        IN  CASE token.token = "Noun" ->
                    PushTarget(read, TargetNoun(token.value), "MajActTarget")
              [] token.token = "Not" -> FlipAction(read, "ExpectsMajActTarget")
              [] OTHER -> ParseThrow(read)

ParseExpectsMajIsTarget ==
    /\ Parsing("ExpectsMajIsTarget")
    /\ \E token \in Tokens :
        LET read == Read(token)
        IN  CASE token.token = "Noun" ->
                    PushTarget(read, TargetNoun(token.value), "MajIsTarget")
              [] token.token = "Property" ->
                    PushTarget(read, TargetProperty(token.value), "MajIsTarget")
              [] token.token = "Not" -> FlipAction(read, "ExpectsMajIsTarget")
              [] OTHER -> ParseThrow(read)

ParseExpectsMinActTarget ==
    /\ Parsing("ExpectsMinActTarget")
    /\ \E token \in Tokens :
        LET read == Read(token)
        IN  CASE token.token = "Noun" -> MinorTarget(read, TargetNoun(token.value))
              [] token.token = "Property" ->
                    MinorTarget(read, TargetProperty(token.value))
              [] token.token = "Not" -> FlipAction(read, "ExpectsMinActTarget")
              [] OTHER -> ParseThrow(read)

\* the end of the stream is also taken after a dangling AND
AcceptsEOF_dangling(state) ==
    state \in {"Blank", "MajActTarget", "MajIsTarget", "ActAnd", "IsAnd"}

\* the states in which the token stream may end (762-797)
AcceptsEOF(state) == state \in {"Blank", "MajActTarget", "MajIsTarget"}

\* the end of the token stream (759-808)
ParseEOF ==
    /\ status = "running"
    /\ ~parser.eof
    /\ LET ended == [parser EXCEPT !.eof = TRUE]
       IN  IF ~AcceptsEOF(parser.state) THEN ParseThrow(ended)
           ELSE IF parser.state = "Blank" THEN ParseGo(ended)
           ELSE ParseGo([ended EXCEPT !.out = append_statement(parser)])

ParseNext ==
    \/ ParseBlank
    \/ ParseSubject
    \/ ParseExpectsMajCond
    \/ ParseMajCond
    \/ ParseMajCondFacing
    \/ ParseMajCondTarget
    \/ ParseMajCondFacingTarget
    \/ ParseCondAnd
    \/ ParseCondFacingAnd
    \/ ParseExpectsMinCond
    \/ ParseMinCond
    \/ ParseMinCondFacing
    \/ ParseMinCondTarget
    \/ ParseMajAct
    \/ ParseMajIs
    \/ ParseMajActTarget
    \/ ParseMajIsTarget
    \/ ParseActAnd
    \/ ParseIsAnd
    \/ ParseExpectsMajActTarget
    \/ ParseExpectsMajIsTarget
    \/ ParseExpectsMinActTarget
    \/ ParseEOF

ParseSpec == ParseInit /\ [][ParseNext]_vars

\* the step is the end of the token stream
AtEOF == ~parser.eof /\ parser.eof'

\* C24: at the end of the input the statement parser accepts exactly in the
\* states Blank, MajActTarget and MajIsTarget: in Blank the statements stay as
\* they are, in the other two the pending statement is flushed, and parse
\* returns; in every other state StatementParserError is raised, nothing is
\* added and no statement list is returned.
C24_EOF ==
    [][ AtEOF =>
          IF parser.state \in {"Blank", "MajActTarget", "MajIsTarget"}
          THEN /\ status' = "running"
               /\ IF parser.state = "Blank"
                  THEN parser'.out = parser.out
                  ELSE /\ Len(parser'.out) > Len(parser.out)
                       /\ SubSeq(parser'.out, 1, Len(parser.out)) = parser.out
                       /\ \A k \in (Len(parser.out) + 1)..Len(parser'.out) :
                             /\ parser'.out[k].subject = parser.subject.v
                             /\ parser'.out[k].action_type = parser.action_type.v
          ELSE /\ status' = "exit1"
               /\ error' = "StatementParserError"
               /\ parser'.out = parser.out ]_vars

\* C24: `baba on` ended inside a condition: the run ended with
\* StatementParserError
C24_Witness ==
    /\ parser.eof
    /\ parser.tokens = <<TokenNoun(NounIdentifier(3)), Token("Conditional", "On")>>
    /\ parser.state = "MajCond"
    /\ status = "exit1"
    /\ error = "StatementParserError"

\* the step completes the targets of `A IS t1 AND ... AND tn`: its statements
\* are appended
FlushesIs ==
    /\ parser.state \in {"MajIsTarget", "IsAnd"}
    /\ Len(parser'.out) > Len(parser.out)

\* the last index of the run of noun targets that starts at i
RunEnd(targets, i) ==
    CHOOSE j \in i..Len(targets) :
        /\ \A k \in i..j : targets[k].target = "Noun"
        /\ j = Len(targets) \/ targets[j + 1].target # "Noun"

\* what the statements of an IS list carry: a Property alone, a lone Noun
\* alone, a run of two or more Nouns together with their own signs
RECURSIVE IsSplit(_, _, _)
IsSplit(targets, signs, i) ==
    IF i > Len(targets) THEN <<>>
    ELSE LET j == IF targets[i].target = "Noun" THEN RunEnd(targets, i) ELSE i
         IN  << [single |-> j = i,
                 targets |-> SubSeq(targets, i, j),
                 signs |-> SubSeq(signs, i, j)] >>
             \o IsSplit(targets, signs, j + 1)

\* the targets and signs a statement carries, and in which of its two forms
Carried(statement) ==
    IF statement.action_target # None
    THEN [single |-> TRUE,
          targets |-> << statement.action_target.v >>,
          signs |-> << statement.action_sign.v >>]
    ELSE [single |-> FALSE,
          targets |-> statement.action_targets.v,
          signs |-> statement.action_signs.v]

\* C25: for `A IS t1 AND ... AND tn` the statements come in target order: each
\* Property target is its own single-target statement, each maximal run of two
\* or more Noun targets is one statement with them in action_targets and their
\* own signs, and a lone Noun is a single-target statement; `A IS B AND C AND D`
\* with B, D properties and C a noun gives the three statements B, C, D.
C25_IsSplit ==
    [][ FlushesIs =>
          LET added == SubSeq(parser'.out, Len(parser.out) + 1, Len(parser'.out))
          IN  /\ [k \in 1..Len(added) |-> Carried(added[k])]
                    = IsSplit(parser.action_targets, parser.action_signs, 1)
              /\ \A k \in 1..Len(added) : added[k].subject = parser.subject.v ]_vars

\* C25: `baba is you and keke and up` gave three statements whose
\* action_targets are none, YOU with keke, and UP
C25_Witness ==
    /\ parser.eof
    /\ status = "running"
    /\ parser.tokens = <<TokenNoun(NounIdentifier(3)), Token("Verb", "Is"),
                         Token("Property", "You"), TokenAnd,
                         TokenNoun(NounIdentifier(4)), TokenAnd,
                         Token("Property", "Up")>>
    /\ Len(parser.out) = 3
    /\ parser.out[1].action_targets = Some(<<>>)
    /\ parser.out[2].action_targets =
          Some(<<TargetProperty([kind |-> "You"]), TargetNoun(NounIdentifier(4))>>)
    /\ parser.out[3].action_targets = Some(<<TargetProperty([kind |-> "Up"])>>)
    /\ \A k \in 1..3 : parser.out[k].action_target = None

\* the number of NOT tokens directly before the token at p
RECURSIVE NotsBefore(_, _)
NotsBefore(toks, p) ==
    IF p > 1 /\ toks[p - 1].token = "Not" THEN 1 + NotsBefore(toks, p - 1) ELSE 0

Odd(n) == n % 2 = 1

\* the index of the last verb among the tokens
LastVerb(toks) ==
    CHOOSE p \in 1..Len(toks) :
        /\ toks[p].token = "Verb"
        /\ \A q \in (p + 1)..Len(toks) : toks[q].token # "Verb"

\* the indices of the targets after the last verb, in order
TargetPositions(toks) ==
    LET after == {p \in (LastVerb(toks) + 1)..Len(toks) :
                     toks[p].token \in {"Noun", "Property"}}
    IN  [k \in 1..Cardinality(after) |->
            CHOOSE p \in after : Cardinality({q \in after : q < p}) = k - 1]

\* the signs the statements of one target list carry for its targets, in order
RecordedSigns(added) ==
    IF added[1].action_signs # None THEN added[1].action_signs.v
    ELSE [k \in 1..Len(added) |-> added[k].action_sign.v]

\* the tokens of the target list a step appends the statements of: a minor
\* action ends with the token the step reads, a major list before it
ListTokens ==
    IF parser.state = "ExpectsMinActTarget" THEN parser'.tokens ELSE parser.tokens

\* C26: in every emitted statement the sign of each action target is the
\* parity of the NOT tokens directly before that target, and the sign of the
\* condition is the parity of the NOT tokens directly before the conditional
\* word (checked on the first statement of a stream); NOT tokens of an earlier
\* target or of an earlier statement do not change a sign.
C26_Signs ==
    [][ Len(parser'.out) > Len(parser.out) =>
          LET added == SubSeq(parser'.out, Len(parser.out) + 1, Len(parser'.out))
              at == TargetPositions(ListTokens)
              conds == {p \in 1..Len(parser.tokens) :
                           parser.tokens[p].token = "Conditional"}
          IN  /\ RecordedSigns(added)
                    = [k \in 1..Len(at) |-> Odd(NotsBefore(ListTokens, at[k]))]
              /\ (Len(parser.out) = 0 /\ conds # {}) =>
                    \A k \in 1..Len(added) :
                        added[k].major_cond_sign.v
                            = Odd(NotsBefore(parser.tokens,
                                             CHOOSE p \in conds :
                                                 \A q \in conds : p <= q)) ]_vars

\* C26: `baba has not keke and baba` gave two statements, both negated
C26_Witness ==
    /\ parser.eof
    /\ status = "running"
    /\ parser.tokens = <<TokenNoun(NounIdentifier(3)), Token("Verb", "Has"),
                         TokenNot, TokenNoun(NounIdentifier(4)), TokenAnd,
                         TokenNoun(NounIdentifier(3))>>
    /\ Len(parser.out) = 2
    /\ parser.out[1].action_target = Some(TargetNoun(NounIdentifier(4)))
    /\ parser.out[1].action_sign = Some(TRUE)
    /\ parser.out[2].action_target = Some(TargetNoun(NounIdentifier(3)))
    /\ parser.out[2].action_sign = Some(TRUE)

\* the step reads the target t of a minor action `AND V2 t`
ReadsMinorTarget ==
    /\ parser.state = "ExpectsMinActTarget"
    /\ Len(parser'.tokens) > Len(parser.tokens)
    /\ parser'.tokens[Len(parser'.tokens)].token \in {"Noun", "Property"}
    /\ status' = "running"

\* the target a token stands for
AsTarget(token) ==
    IF token.token = "Noun" THEN TargetNoun(token.value)
    ELSE TargetProperty(token.value)

\* C27: for `S [condition] V1 targets AND V2 t` the V1 statements are followed
\* by exactly one statement of verb V2 with the single target t, the same
\* subject and the same condition type, sign and targets as the V1
\* statements; after t the automaton is in Blank.
C27_MinorAction ==
    [][ ReadsMinorTarget =>
          LET added == SubSeq(parser'.out, Len(parser.out) + 1, Len(parser'.out))
              major == parser.out[Len(parser.out)]
              read == parser'.tokens[Len(parser'.tokens)]
          IN  /\ Len(added) = 1
              /\ added[1].action_type = parser.action_type.v
              /\ Carried(added[1]).targets = << AsTarget(read) >>
              /\ added[1].subject = major.subject
              /\ added[1].major_cond_type = major.major_cond_type
              /\ added[1].major_cond_sign = major.major_cond_sign
              /\ added[1].major_cond_targets = major.major_cond_targets
              /\ parser'.state = "Blank" ]_vars

\* C27: `baba has keke and is you` gave the HAS statement and two IS
\* statements, the first with no target
C27_Witness ==
    /\ parser.state = "Blank"
    /\ status = "running"
    /\ parser.tokens = <<TokenNoun(NounIdentifier(3)), Token("Verb", "Has"),
                         TokenNoun(NounIdentifier(4)), TokenAnd,
                         Token("Verb", "Is"), Token("Property", "You")>>
    /\ Len(parser.out) = 3
    /\ parser.out[1].action_type = [kind |-> "Has"]
    /\ parser.out[2].action_type = [kind |-> "Is"]
    /\ parser.out[2].action_targets = Some(<<>>)
    /\ parser.out[3].action_type = [kind |-> "Is"]
    /\ parser.out[3].action_targets = Some(<<TargetProperty([kind |-> "You"])>>)

\* the number of NOT tokens the stream starts with
RECURSIVE LeadingNots(_)
LeadingNots(toks) ==
    IF toks # <<>> /\ toks[1].token = "Not" THEN 1 + LeadingNots(Tail(toks)) ELSE 0

\* the tokens read so far start a stream `NOT* PREFIX SUBJECT VERB TARGET`
StartsPrefixed(toks) ==
    LET n == LeadingNots(toks)
        has(k, classes) == Len(toks) < n + k \/ toks[n + k].token \in classes
    IN  /\ toks # <<>>
        /\ Len(toks) <= n + 4
        /\ has(1, {"Prefix"})
        /\ has(2, {"Noun"})
        /\ has(3, {"Verb"})
        /\ has(4, {"Noun"} \cup IF Len(toks) >= n + 3 /\ toks[n + 3].value.kind = "Is"
                                THEN {"Property"} ELSE {})

\* C28: a statement may begin with an optionally negated prefix: a token stream
\* `[NOT* PREFIX] SUBJECT VERB TARGET` is accepted, and yields one statement
\* whose prefix is that Prefix and whose prefix_sign is the parity of the NOT
\* tokens before it.
C28_Prefix ==
    StartsPrefixed(parser.tokens) =>
        LET n == LeadingNots(parser.tokens)
        IN  /\ status = "running"
            /\ (parser.eof /\ Len(parser.tokens) = n + 4) =>
                  /\ Len(parser.out) = 1
                  /\ "prefix" \in DOMAIN parser.out[1]
                  /\ parser.out[1].prefix = Some(parser.tokens[n + 1].value)
                  /\ parser.out[1].prefix_sign = Some(Odd(n))

\* C28: the first token IDLE ended the run with StatementParserError
C28_Witness ==
    /\ parser.tokens = << Token("Prefix", "Idle") >>
    /\ parser.state = "Blank"
    /\ status = "exit1"
    /\ error = "StatementParserError"

-----------------------------------------------------------------------------
\* The instruction parser (ast.rs) and the validator it calls (instruction.rs)

\* number of statements of a statement stream that is drawn one at a time
MaxStatements == 4

\* Statement (statement.rs 9-24) with one action_target
Statement(prefix, subject, action_type, action_target, action_sign) ==
    [prefix |-> prefix,
     prefix_sign |-> IF prefix.t = "None" THEN None ELSE Some(FALSE),
     subject |-> subject,
     cond_type |-> None, cond_sign |-> None, cond_targets |-> <<>>,
     action_type |-> [kind |-> action_type],
     action_targets |-> None,
     action_target |-> Some(action_target),
     action_signs |-> None,
     action_sign |-> action_sign]

\* SUBJECT IS PROPERTY, SUBJECT IS NOUN, SUBJECT HAS NOUN
IsProperty(id, prop) ==
    Statement(None, NounIdentifier(id), "Is", TargetProperty([kind |-> prop]), FALSE)
IsNoun(id, noun) ==
    Statement(None, NounIdentifier(id), "Is", TargetNoun(noun), FALSE)
HasNoun(id, target) ==
    Statement(None, NounIdentifier(id), "Has", TargetNoun(NounIdentifier(target)), FALSE)
IsNotProperty(id, prop) ==
    Statement(None, NounIdentifier(id), "Is", TargetProperty([kind |-> prop]), TRUE)
AllIsDone ==
    Statement(None, NounAll, "Is", TargetProperty([kind |-> "Done"]), FALSE)

\* the statements a drawn statement stream is made of
Statements ==
    {IsProperty(x, "Tele"), IsProperty(baba, "Tele"),
     IsProperty(x, "Done"), IsProperty(baba, "Done"), AllIsDone,
     IsProperty(x, "Float"), IsProperty(x, "You"), IsProperty(baba, "You"),
     IsProperty(x, "Power"), IsNoun(x, NounLevel), HasNoun(x, keke),
     IsNotProperty(x, "You"), IsNotProperty(x, "Tele")}

\* statement streams that are given as a whole
AstPrograms ==
    {<<IsProperty(x, "Float"), IsNoun(x, NounImage), HasNoun(x, keke),
       IsNoun(x, NounLevel), HasNoun(x, baba), IsProperty(x, "Done"),
       IsProperty(x, "Done"), IsProperty(baba, "You")>>,
     <<IsNoun(x, NounImage), IsNoun(x, NounLevel), IsProperty(x, "Done"),
       IsProperty(x, "Done")>>,
     <<IsNoun(x, NounImage), IsProperty(baba, "You"), IsProperty(x, "Done")>>,
     <<IsNoun(x, NounImage), HasNoun(x, keke), IsProperty(x, "Done")>>,
     <<IsNoun(x, NounImage), IsNoun(x, NounLevel), HasNoun(x, keke),
       IsProperty(x, "Done"), IsProperty(baba, "You"), IsProperty(x, "Done")>>,
     <<IsNoun(x, NounImage), HasNoun(baba, keke), IsNoun(x, NounLevel),
       HasNoun(x, keke), IsProperty(x, "Done"), IsProperty(x, "Done")>>,
     <<IsProperty(x, "Float"), IsNoun(x, NounLevel), HasNoun(x, keke),
       IsProperty(baba, "You"), IsProperty(x, "Done"), IsProperty(x, "Power")>>,
     <<IsProperty(x, "Float"), IsProperty(x, "You2")>>,
     <<IsProperty(x, "Float"), IsProperty(x, "Group")>>,
     <<IsProperty(x, "Float"), IsProperty(baba, "You2")>>,
     <<IsProperty(x, "Float"), IsProperty(baba, "Group")>>,
     <<IsProperty(x, "Float"), IsNoun(baba, NounLevel), IsProperty(baba, "Done")>>,
     <<IsProperty(x, "Float"), IsNoun(baba, NounImage)>>,
     <<IsProperty(x, "You"), AllIsDone, IsProperty(baba, "You"),
       IsProperty(baba, "Done")>>,
     <<IsProperty(x, "Tele"),
       Statement(Some("Lonely"), NounIdentifier(x), "Is",
                 TargetProperty([kind |-> "Done"]), FALSE)>>,
     <<IsProperty(x, "Tele"),
       Statement(None, NounIdentifier(x), "Is",
                 TargetProperty([kind |-> "Done"]), TRUE),
       IsProperty(baba, "Group")>>,
     <<Statement(None, NounAll, "Is", TargetProperty([kind |-> "Done"]), TRUE)>>,
     <<IsNotProperty(x, "Power"), IsNotProperty(x, "Group")>>,
     <<Statement(Some("Lonely"), NounIdentifier(x), "Is",
                 TargetProperty([kind |-> "Power"]), FALSE),
       Statement(Some("Lonely"), NounIdentifier(x), "Is",
                 TargetProperty([kind |-> "You"]), FALSE)>>,
     <<Statement(None, NounAll, "Is", TargetProperty([kind |-> "Group"]), FALSE)>>,
     <<Statement(None, NounAll, "Is", TargetProperty([kind |-> "Power"]), FALSE)>>,
     <<IsProperty(x, "Float"), IsNotProperty(x, "You2")>>,
     <<Statement(None, NounLevel, "Is", TargetProperty([kind |-> "Done"]), FALSE)>>}

\* Simple::InitYou2 and Simple::Power as the validator builds them
\* (instruction.rs 12, 52: both carry the float flag)
InitYou2(id, float) == [op |-> "InitYou2", id |-> id, float |-> float]
SimplePower(id, float) == [op |-> "Power", id |-> id, float |-> float]

NoOp == [op |-> "NoOp"]
Partial(kind, id) == [op |-> kind, id |-> id]

\* throw_error in a function that returns an instruction: the process exits
Thrown(err) == [op |-> "throw_error", error |-> err]

\* conditions (instruction.rs 287-329)
conditions(statement) ==
    IF statement.cond_type.t = "Some"
    THEN IF statement.prefix.t = "Some"
         THEN << Some(Conditions(statement.cond_type.v, statement.cond_sign.v,
                                 statement.cond_targets)),
                 Some(Prefixes(statement.prefix.v, statement.prefix_sign.v)) >>
         ELSE << Some(Conditions(statement.cond_type.v, statement.cond_sign.v,
                                 statement.cond_targets)),
                 None >>
    ELSE IF statement.prefix.t = "Some"
    THEN << None, Some(Prefixes(statement.prefix.v, statement.prefix_sign.v)) >>
    ELSE << None, None >>

Unconditional(conds) == conds[1].t = "None" /\ conds[2].t = "None"

\* merge (instruction.rs 332-353)
merge(simple, conds) ==
    IF Unconditional(conds) THEN simple
    ELSE Complex(IF conds[1].t = "Some" THEN conds[1].v ELSE None,
                 IF conds[2].t = "Some" THEN conds[2].v ELSE None,
                 simple)

\* Simple::InitYou, InitYou2, InitGroup, Power as a factory (usize, bool)
SimpleInit(simple_factory, id, float) ==
    [op |-> simple_factory, id |-> id, float |-> float]

\* Simple::HasValue as a factory (usize, usize)
SimpleVerb(simple_factory, id, target) ==
    [op |-> simple_factory, id |-> id, target |-> target]

\* generic_init (instruction.rs 406-447)
generic_init(statement, target, float, simple_factory) ==
    IF statement.subject.kind = "Identifier"
    THEN IF target = "POWER"
         THEN SimpleInit(simple_factory, statement.subject.id, float)
         ELSE IF Unconditional(conditions(statement))
         THEN IF ~statement.action_sign
              THEN SimpleInit(simple_factory, statement.subject.id, float)
              ELSE NoOp
         ELSE Thrown("InstructionValidationError")
    ELSE Thrown("InstructionValidationError")

\* generic_partial (instruction.rs 449-486)
generic_partial(statement, partial_factory) ==
    IF statement.subject.kind = "Identifier"
    THEN IF Unconditional(conditions(statement))
         THEN IF ~statement.action_sign
              THEN Partial(partial_factory, statement.subject.id)
              ELSE NoOp
         ELSE Thrown("InstructionValidationError")
    ELSE Thrown("InstructionValidationError")

\* generic_verb (instruction.rs 516-547)
generic_verb(statement, simple_factory) ==
    IF statement.subject.kind = "Identifier"
    THEN LET target == statement.action_target
             id == statement.subject.id
         IN  IF target.t = "Some" /\ target.v.target = "Noun"
                /\ target.v.value.kind = "Identifier"
             THEN merge(SimpleVerb(simple_factory, id, target.v.value.id), conditions(statement))
             ELSE IF target.t = "Some" /\ target.v.target = "Noun"
                     /\ target.v.value.kind = "Empty"
             THEN merge(SimpleVerb(simple_factory, id, 0), conditions(statement))
             ELSE IF target.t = "Some" /\ target.v.target = "Noun"
                     /\ target.v.value.kind = "Level"
             THEN merge(SimpleVerb(simple_factory, id, 1), conditions(statement))
             ELSE NoOp
    ELSE Thrown("InstructionValidationError")

\* validate (instruction.rs 124-272), the instruction types of the statements
\* above
validate(instruction_type, statement) ==
    CASE instruction_type = "InitYou" -> generic_init(statement, "YOU", FALSE, "InitYou")
      [] instruction_type = "InitYou2" -> generic_init(statement, "YOU2", FALSE, "InitYou2")
      [] instruction_type = "InitGroup" -> generic_init(statement, "GROUP", FALSE, "InitGroup")
      [] instruction_type = "InitTele" -> generic_partial(statement, "PartialTele")
      [] instruction_type = "InitLevel" -> generic_partial(statement, "PartialLevel")
      [] instruction_type = "InitImage" -> generic_partial(statement, "PartialImage")
      [] instruction_type = "InitFloat" -> generic_partial(statement, "PartialFloat")
      [] instruction_type = "FloatYou" -> generic_init(statement, "YOU", TRUE, "InitYou")
      [] instruction_type = "FloatYou2" -> generic_init(statement, "YOU2", TRUE, "InitYou2")
      [] instruction_type = "FloatGroup" -> generic_init(statement, "GROUP", TRUE, "InitGroup")
      [] instruction_type = "HasValue" -> generic_verb(statement, "HasValue")
      [] instruction_type = "LevelPower" -> generic_init(statement, "POWER", FALSE, "Power")
      [] instruction_type = "FloatPower" -> generic_init(statement, "POWER", TRUE, "Power")
      [] OTHER -> Thrown("InstructionValidationError")

\* push_nonempty that pushes the no-op too
push_nonempty_all(vec, instruction) == Append(vec, instruction)

\* push_nonempty (ast.rs 15-19)
push_nonempty(vec, instruction) ==
    IF instruction.op = "NoOp" THEN vec ELSE Append(vec, instruction)

\* the leading HasValue(source, target) instructions with source = id
\* (ast.rs 215-224, 358-367)
RECURSIVE level_arguments(_, _, _)
level_arguments(inner, k, id) ==
    IF k <= Len(inner) /\ inner[k].op = "HasValue" /\ inner[k].id = id
    THEN << inner[k].target >> \o level_arguments(inner, k + 1, id)
    ELSE <<>>

\* the Level built from the instructions of its scope (ast.rs 225-241, 368-384)
level_of(float, id, inner) ==
    LET args == level_arguments(inner, 1, id)
    IN  LevelI(float, id, args, SubSeq(inner, Len(args) + 1, Len(inner)))

\* the Image built from the instructions of its scope (ast.rs 261-304, 396-439)
RECURSIVE image_of(_, _, _, _, _)
image_of(float, id, inner, k, args) ==
    IF k > Len(inner) THEN Thrown("InstructionValidationError")
    ELSE IF inner[k].op = "HasValue"
    THEN image_of(float, id, inner, k + 1,
                  IF inner[k].id = id THEN Append(args, inner[k].target) ELSE args)
    ELSE IF inner[k].op = "Level"
    THEN IF inner[k].identifier = id
         THEN IF Len(inner[k].arguments) >= 1
              THEN ImageI(float, id, args, inner[k])
              ELSE Thrown("InstructionValidationError")
         ELSE image_of(float, id, inner, k + 1, args)
    ELSE Thrown("InstructionParserError")

\* what the caller of parse_inner pushes once the scope it opened has returned
Enclosing(opened, inner) ==
    CASE opened.kind = "Tele" -> TeleI(opened.id, inner)
      [] opened.kind = "Level" -> level_of(opened.float, opened.id, inner)
      [] opened.kind = "Image" -> image_of(opened.float, opened.id, inner, 1, <<>>)

\* the locals of one call of parse_inner (ast.rs 26-33): `base` is the number
\* of statements before its slice, `pos` the number of elements of the slice
\* that iter has yielded, `opened` what the caller builds from its result
Frame(scope, base, opened) ==
    [scope |-> scope, base |-> base, pos |-> 0, last |-> 0, out |-> <<>>,
     opened |-> opened]

Program == [kind |-> "Program", id |-> 0, float |-> FALSE]
Opened(kind, id, float) == [kind |-> kind, id |-> id, float |-> float]

\* parse (ast.rs 9-12) before the first statement. `eof` tells that the stream
\* has no more statements than those drawn, `unclosed` that a scope was left
\* by the end of the stream (a history of the model), `result` is what parse
\* returns.
AstStart(statements, eof) ==
    [state |-> "Building", statements |-> statements, eof |-> eof,
     frames |-> << Frame(None, 0, Program) >>, unclosed |-> FALSE,
     result |-> None]

AstInit ==
    /\ builder \in {AstStart(<<>>, FALSE)}
                   \cup {AstStart(program, TRUE) : program \in AstPrograms}
    /\ lexer = Off
    /\ parser = Off
    /\ NotExecuting

AstTop == builder.frames[Len(builder.frames)]

\* the statement that iter.next() yields in the innermost call, counted from 1
\* in the whole stream
AstIndex == AstTop.base + AstTop.pos + 1

AstStatement == builder.statements[AstIndex]

IsTarget(statement, target) ==
    /\ statement.action_type.kind = "Is"
    /\ statement.action_target.t = "Some"
    /\ statement.action_target.v = target

\* the loop needs to know whether the stream has one more statement: the one
\* it reads next, or the one that FLOAT looks ahead to (ast.rs 35, 126)
AstWanted ==
    /\ status = "running"
    /\ builder.state = "Building"
    /\ ~builder.eof
    /\ \/ AstIndex > Len(builder.statements)
       \/ /\ AstIndex = Len(builder.statements)
          /\ IsTarget(AstStatement, TargetProperty([kind |-> "Float"]))

\* while let Some((i, statement)) = iter.next() (ast.rs 35)
Building ==
    /\ status = "running"
    /\ builder.state = "Building"
    /\ AstIndex <= Len(builder.statements)
    /\ IsTarget(AstStatement, TargetProperty([kind |-> "Float"]))
          => (AstIndex < Len(builder.statements) \/ builder.eof)

AstGo(next) ==
    /\ builder' = next
    /\ UNCHANGED <<lexer, parser, scenario, stack, stores, ret, drawn,
                   status, error, out>>

\* throw_error (error_handler.rs): the process exits
AstThrow(err) ==
    /\ status' = ExitStatus(err)
    /\ error' = err
    /\ UNCHANGED <<front, scenario, stack, stores, ret, drawn, out>>

\* last = i (ast.rs 36) after iter.next()
Advance(frame) == [frame EXCEPT !.last = frame.pos, !.pos = frame.pos + 1]

\* the frames with the innermost one replaced
WithTop(frame) == [builder.frames EXCEPT ![Len(builder.frames)] = frame]

Min(a, b) == IF a <= b THEN a ELSE b

\* return (out, last) of the innermost call in `frames`; its caller skips
\* iter.nth(inner_last) and pushes the instruction of the scope (ast.rs 113-120,
\* 210-241, 255-304, 353-384, 390-439); parse returns the instructions of the
\* outermost call (ast.rs 10-11)
Return(frames, unclosed) ==
    LET n == Len(frames)
        top == frames[n]
    IN  IF n = 1
        THEN AstGo([builder EXCEPT !.frames = <<>>, !.state = "Built",
                                   !.result = Some(top.out)])
        ELSE LET caller == frames[n - 1]
                 enclosing == Enclosing(top.opened, top.out)
                 skipped == [caller EXCEPT !.pos =
                                Min(@ + top.last + 1,
                                    Len(builder.statements) - caller.base)]
             IN  IF enclosing.op = "throw_error"
                 THEN AstThrow(enclosing.error)
                 ELSE AstGo([builder EXCEPT
                        !.frames = SubSeq(frames, 1, n - 2) \o
                            << [skipped EXCEPT
                                   !.out = push_nonempty(@, enclosing)] >>,
                        !.unclosed = unclosed])

\* parse_inner(&statements[i + 1..], Some(id), identifiers) called by `frame`
Open(frame, kind, id, float) ==
    AstGo([builder EXCEPT !.frames =
              WithTop(frame) \o
              << Frame(Some(id), frame.base + frame.pos, Opened(kind, id, float)) >>])

\* push_nonempty(&mut out, validate(...)) by `frame`
Push(frame, instruction) ==
    IF instruction.op = "throw_error"
    THEN AstThrow(instruction.error)
    ELSE AstGo([builder EXCEPT !.frames =
                   WithTop([frame EXCEPT !.out = push_nonempty(@, instruction)])])

\* Some(value) if value == id (ast.rs 53) with any identifier
Exits_any(scope, id) == scope.t = "Some"

\* Some(value) if value == id (ast.rs 53)
Exits(scope, id) == scope.t = "Some" /\ scope.v = id

\* Property::Done (ast.rs 46-105)
AstDone ==
    /\ Building
    /\ IsTarget(AstStatement, TargetProperty([kind |-> "Done"]))
    /\ LET statement == AstStatement
           frame == Advance(AstTop)
       IN  IF Unconditional(conditions(statement))
           THEN IF statement.subject.kind = "Identifier"
                THEN IF Exits(frame.scope, statement.subject.id)
                     THEN Return(WithTop(frame), builder.unclosed)
                     ELSE AstThrow("InstructionParserError")
                ELSE IF statement.subject.kind = "All"
                THEN IF frame.scope.t = "None"
                     THEN IF ~statement.action_sign
                          THEN Return(WithTop(frame), builder.unclosed)
                          ELSE AstThrow("InstructionValidationError")
                     ELSE AstThrow("InstructionParserError")
                ELSE AstThrow("InstructionValidationError")
           ELSE AstThrow("InstructionValidationError")

\* Property::You, You2, Group, Power (ast.rs 107-109, 343)
AstSimple ==
    /\ Building
    /\ \E prop \in {"You", "You2", "Group", "Power"} :
          /\ IsTarget(AstStatement, TargetProperty([kind |-> prop]))
          /\ Push(Advance(AstTop),
                  validate(CASE prop = "You" -> "InitYou"
                             [] prop = "You2" -> "InitYou2"
                             [] prop = "Group" -> "InitGroup"
                             [] prop = "Power" -> "LevelPower",
                           AstStatement))

\* a statement that opens a scope when validate returns the partial
\* instruction, and does nothing when it returns the no-op
Scope(frame, partial, kind, float) ==
    IF partial.op = "throw_error" THEN AstThrow(partial.error)
    ELSE IF partial.op = "NoOp" THEN AstGo([builder EXCEPT !.frames = WithTop(frame)])
    ELSE Open(frame, kind, partial.id, float)

\* Property::Tele (ast.rs 110-122)
AstTele ==
    /\ Building
    /\ IsTarget(AstStatement, TargetProperty([kind |-> "Tele"]))
    /\ Scope(Advance(AstTop), validate("InitTele", AstStatement), "Tele", FALSE)

\* Noun::Level (ast.rs 350-386)
AstLevel ==
    /\ Building
    /\ IsTarget(AstStatement, TargetNoun(NounLevel))
    /\ Scope(Advance(AstTop), validate("InitLevel", AstStatement), "Level", FALSE)

\* Noun::Image (ast.rs 387-441)
AstImage ==
    /\ Building
    /\ IsTarget(AstStatement, TargetNoun(NounImage))
    /\ Scope(Advance(AstTop), validate("InitImage", AstStatement), "Image", FALSE)

\* the initializer after FLOAT (ast.rs 127-204): valid when validate returns
\* the instruction `op` of the identifier of FLOAT
FloatInit(frame, init, op, id) ==
    IF init.op = "throw_error" THEN AstThrow(init.error)
    ELSE IF \/ init.op = op /\ init.id = id
            \/ /\ init.op = "Complex"
               /\ init.instruction.op = op
               /\ init.instruction.id = id
    THEN Push(frame, init)
    ELSE AstThrow("InstructionValidationError")

\* the scope after FLOAT (ast.rs 205-250, 251-313)
FloatScope(frame, partial, kind, id) ==
    IF partial.op = "throw_error" THEN AstThrow(partial.error)
    ELSE IF partial.op = "NoOp" THEN AstGo([builder EXCEPT !.frames = WithTop(frame)])
    ELSE IF id = partial.id THEN Open(frame, kind, partial.id, TRUE)
    ELSE AstThrow("InstructionValidationError")

\* Property::Float (ast.rs 124-323)
AstFloat ==
    /\ Building
    /\ IsTarget(AstStatement, TargetProperty([kind |-> "Float"]))
    /\ LET partial == validate("InitFloat", AstStatement)
           frame == Advance(AstTop)
       IN  IF partial.op = "throw_error" THEN AstThrow(partial.error)
           ELSE IF partial.op = "NoOp" \/ AstIndex = Len(builder.statements)
           THEN AstGo([builder EXCEPT !.frames = WithTop(frame)])
           ELSE LET next == builder.statements[AstIndex + 1]
                    target == next.action_target
                    looked == [frame EXCEPT !.pos = @ + 1]
                    id == partial.id
                IN  IF target = Some(TargetProperty([kind |-> "You"]))
                    THEN FloatInit(looked, validate("FloatYou", next), "InitYou", id)
                    ELSE IF target = Some(TargetProperty([kind |-> "You2"]))
                    THEN FloatInit(looked, validate("FloatYou2", next), "InitYou2", id)
                    ELSE IF target = Some(TargetProperty([kind |-> "Group"]))
                    THEN FloatInit(looked, validate("FloatGroup", next), "InitGroup", id)
                    ELSE IF target = Some(TargetNoun(NounLevel))
                    THEN FloatScope(looked, validate("InitLevel", next), "Level", id)
                    ELSE IF target = Some(TargetNoun(NounImage))
                    THEN FloatScope(looked, validate("InitImage", next), "Image", id)
                    ELSE AstThrow("InstructionValidationError")

\* Verb::Has (ast.rs 451-457)
AstHas ==
    /\ Building
    /\ AstStatement.action_type.kind = "Has"
    /\ AstStatement.action_target.t = "Some"
    /\ AstStatement.action_target.v.target = "Noun"
    /\ Push(Advance(AstTop), validate("HasValue", AstStatement))

\* the loop of the innermost call ends with the stream (ast.rs 35, 502)
AstEnd ==
    /\ status = "running"
    /\ builder.state = "Building"
    /\ builder.eof
    /\ AstIndex > Len(builder.statements)
    /\ Return(builder.frames, builder.unclosed \/ Len(builder.frames) > 1)

\* the stream has one more statement
AstDraw ==
    /\ AstWanted
    /\ Len(builder.statements) < MaxStatements
    /\ \E statement \in Statements :
          AstGo([builder EXCEPT !.statements = Append(@, statement)])

\* the stream has no more statements
AstEOF ==
    /\ AstWanted
    /\ AstGo([builder EXCEPT !.eof = TRUE])

AstNext ==
    \/ AstDraw
    \/ AstEOF
    \/ AstDone
    \/ AstSimple
    \/ AstTele
    \/ AstLevel
    \/ AstImage
    \/ AstFloat
    \/ AstHas
    \/ AstEnd

AstSpec == AstInit /\ [][AstNext]_vars

-----------------------------------------------------------------------------
\* Leaving a scope

IsDone(statement) == IsTarget(statement, TargetProperty([kind |-> "Done"]))

\* a statement that opens a scope: X IS TELE, X IS LEVEL, X IS IMAGE
Opens(statement) ==
    /\ \/ IsTarget(statement, TargetProperty([kind |-> "Tele"]))
       \/ IsTarget(statement, TargetNoun(NounLevel))
       \/ IsTarget(statement, TargetNoun(NounImage))
    /\ statement.subject.kind = "Identifier"
    /\ ~statement.action_sign

\* the identifiers of the scopes that the first k statements of the stream
\* have opened and not closed, the innermost last
RECURSIVE OpenScopes(_, _)
OpenScopes(statements, k) ==
    IF k = 0 THEN <<>>
    ELSE LET before == OpenScopes(statements, k - 1)
         IN  IF Opens(statements[k]) THEN Append(before, statements[k].subject.id)
             ELSE IF IsDone(statements[k]) /\ before # <<>>
             THEN SubSeq(before, 1, Len(before) - 1)
             ELSE before

\* the scopes of the calls of parse_inner are the open scopes of the
\* statements read so far, as long as no scope was left by the end of the
\* stream
C29_Scopes ==
    (status = "running" /\ builder.state = "Building" /\ ~builder.unclosed)
        => [k \in 1..(Len(builder.frames) - 1) |-> builder.frames[k + 1].scope.v]
               = OpenScopes(builder.statements, AstIndex - 1)

\* the statement is refused with this error
Refused(err) ==
    /\ status' = "exit1"
    /\ error' = err
    /\ builder' = builder

\* the innermost scope, and no other, is closed: its caller pushes the
\* instruction of the scope and reads on after the statement
Closes ==
    LET n == Len(builder.frames)
        enclosing == Enclosing(AstTop.opened, AstTop.out)
    IN  IF enclosing.op = "throw_error"
        THEN Refused(enclosing.error)
        ELSE /\ status' = "running"
             /\ builder'.statements = builder.statements
             /\ Len(builder'.frames) = n - 1
             /\ \A k \in 1..(n - 1) :
                   builder'.frames[k].scope = builder.frames[k].scope
             /\ builder'.frames[n - 1].out =
                   Append(builder.frames[n - 1].out, enclosing)
             /\ builder'.frames[n - 1].base + builder'.frames[n - 1].pos = AstIndex

\* the program ends with the instructions built so far
EndsProgram ==
    /\ status' = "running"
    /\ builder'.state = "Built"
    /\ builder'.result = Some(AstTop.out)

C29_Step ==
    (/\ Building
     /\ IsDone(AstStatement)
     /\ Unconditional(conditions(AstStatement))
     /\ ~AstStatement.action_sign)
        => /\ AstStatement.subject.kind = "Identifier" =>
                IF /\ Len(builder.frames) > 1
                   /\ AstTop.scope.v = AstStatement.subject.id
                THEN Closes
                ELSE Refused("InstructionParserError")
           /\ AstStatement.subject.kind = "All" =>
                IF Len(builder.frames) = 1
                THEN EndsProgram
                ELSE Refused("InstructionParserError")

\* C29: X IS DONE is accepted only when X is the identifier of the innermost
\* open scope, and then that scope and no other is closed: the caller pushes
\* the Tele, Level or Image of that scope and reads on after the statement.
\* With any other identifier, or in program scope, InstructionParserError is
\* raised. ALL IS DONE in program scope ends the program with the instructions
\* built so far, and no statement after it is read; in an open scope it raises
\* InstructionParserError.
C29_Done ==
    /\ []C29_Scopes
    /\ [][C29_Step]_vars
    /\ [][builder.state = "Built" => builder' = builder]_vars

\* BABA IS DONE has closed the inner of two scopes, and X is still open
C29_Witness ==
    /\ builder.state = "Building"
    /\ status = "running"
    /\ builder.statements =
          <<IsProperty(x, "Tele"), IsProperty(baba, "Tele"), IsProperty(baba, "Done")>>
    /\ Len(builder.frames) = 2
    /\ builder.frames[2].scope = Some(x)
    /\ builder.frames[2].out = <<TeleI(baba, <<>>)>>

-----------------------------------------------------------------------------
\* FLOAT

\* Y IS YOU, YOU2, GROUP, POWER, LEVEL or IMAGE without NOT and conditions
Initializer(statement) ==
    /\ statement.action_type.kind = "Is"
    /\ statement.action_target.t = "Some"
    /\ statement.action_target.v \in
          {TargetProperty([kind |-> "You"]), TargetProperty([kind |-> "You2"]),
           TargetProperty([kind |-> "Group"]), TargetProperty([kind |-> "Power"]),
           TargetNoun(NounLevel), TargetNoun(NounImage)}
    /\ statement.subject.kind = "Identifier"
    /\ Unconditional(conditions(statement))
    /\ ~statement.action_sign

\* the float-tagged form of the initializer of id
Tagged(target, id) ==
    CASE target.value.kind = "You" -> InitYou(id, TRUE)
      [] target.value.kind = "You2" -> InitYou2(id, TRUE)
      [] target.value.kind = "Group" -> InitGroup(id, TRUE)
      [] target.value.kind = "Power" -> SimplePower(id, TRUE)

\* X IS FLOAT is read and the stream has an initializer after it
FloatRead ==
    /\ Building
    /\ IsTarget(AstStatement, TargetProperty([kind |-> "Float"]))
    /\ AstStatement.subject.kind = "Identifier"
    /\ Unconditional(conditions(AstStatement))
    /\ ~AstStatement.action_sign
    /\ AstIndex < Len(builder.statements)
    /\ Initializer(builder.statements[AstIndex + 1])

C30_Step ==
    FloatRead =>
        LET id == AstStatement.subject.id
            next == builder.statements[AstIndex + 1]
            target == next.action_target.v
            n == Len(builder.frames)
        IN  IF next.subject.id # id
            THEN Refused("InstructionValidationError")
            ELSE /\ status' = "running"
                 /\ builder'.statements = builder.statements
                 /\ IF target.target = "Property"
                    THEN /\ Len(builder'.frames) = n
                         /\ builder'.frames[n].out =
                               Append(AstTop.out, Tagged(target, id))
                         /\ builder'.frames[n].base + builder'.frames[n].pos
                               = AstIndex + 1
                    ELSE /\ Len(builder'.frames) = n + 1
                         /\ builder'.frames[n].out = AstTop.out
                         /\ builder'.frames[n + 1].scope = Some(id)
                         /\ builder'.frames[n + 1].base = AstIndex + 1
                         /\ builder'.frames[n + 1].opened =
                               Opened(target.value.kind, id, TRUE)

\* the scope after FLOAT is closed: its caller pushes the float-tagged
\* Level or Image
C30_Closed ==
    (/\ status = "running" /\ status' = "running"
     /\ builder.state = "Building" /\ builder'.state = "Building"
     /\ Len(builder'.frames) = Len(builder.frames) - 1
     /\ AstTop.opened.float)
        => LET caller == builder'.frames[Len(builder'.frames)]
               pushed == caller.out[Len(caller.out)]
           IN  /\ Len(caller.out) = Len(builder.frames[Len(builder.frames) - 1].out) + 1
               /\ pushed.op = AstTop.opened.kind
               /\ pushed.identifier = AstTop.opened.id
               /\ pushed.float

\* C30: X IS FLOAT immediately followed by X IS YOU, X IS YOU2, X IS GROUP or
\* X IS POWER pushes that instruction with float = TRUE; followed by X IS LEVEL
\* or X IS IMAGE it opens the scope of X, and the Level or Image pushed when
\* that scope is closed has float = TRUE. When the subject of the initializer
\* is not X, InstructionValidationError is raised.
C30_Float ==
    /\ [][C30_Step]_vars
    /\ [][C30_Closed]_vars

\* X IS FLOAT X IS POWER has raised InstructionValidationError
C30_Witness ==
    /\ builder.state = "Building"
    /\ builder.statements = <<IsProperty(x, "Float"), IsProperty(x, "Power")>>
    /\ Len(builder.frames) = 1
    /\ AstTop.pos = 0
    /\ AstTop.out = <<>>
    /\ status = "exit1"
    /\ error = "InstructionValidationError"

-----------------------------------------------------------------------------
\* The body of an IMAGE

\* the instructions of the body are HasValue of the image, k - 1 of them, and
\* then one Level named like the image with at least one argument
Constructed(inner, id, k) ==
    /\ k = Len(inner)
    /\ \A j \in 1..(k - 1) : inner[j].op = "HasValue" /\ inner[j].id = id
    /\ inner[k].op = "Level"
    /\ inner[k].identifier = id
    /\ Len(inner[k].arguments) >= 1

\* the body has no Level named like the image, or one without arguments
Unconstructed(inner, id) ==
    \A j \in 1..Len(inner) :
        \/ inner[j].op = "HasValue" /\ inner[j].id = id
        \/ /\ j = Len(inner)
           /\ inner[j].op = "Level"
           /\ inner[j].identifier = id
           /\ inner[j].arguments = <<>>

\* X IS DONE is read in the scope of the image X
ImageRead ==
    /\ Building
    /\ IsDone(AstStatement)
    /\ Unconditional(conditions(AstStatement))
    /\ ~AstStatement.action_sign
    /\ AstStatement.subject.kind = "Identifier"
    /\ Len(builder.frames) > 1
    /\ AstTop.scope.v = AstStatement.subject.id
    /\ AstTop.opened.kind = "Image"

C31_Step ==
    ImageRead =>
        LET inner == AstTop.out
            id == AstTop.opened.id
            n == Len(builder.frames)
        IN  IF inner # <<>> /\ Constructed(inner, id, Len(inner))
            THEN /\ status' = "running"
                 /\ Len(builder'.frames) = n - 1
                 /\ builder'.frames[n - 1].out =
                       Append(builder.frames[n - 1].out,
                              ImageI(AstTop.opened.float, id,
                                     [j \in 1..(Len(inner) - 1) |-> inner[j].target],
                                     inner[Len(inner)]))
            ELSE /\ status' = "exit1"
                 /\ error' \in {"InstructionParserError", "InstructionValidationError"}
                 /\ Unconstructed(inner, id) => error' = "InstructionValidationError"
                 /\ builder' = builder

\* C31: when the scope of an IMAGE is closed, its body is accepted only if it
\* is made of HasValue instructions of the image followed by exactly one Level
\* named like the image with at least one argument, and then the Image has
\* those attributes and that constructor; any other instruction in the body
\* raises an error, and a constructor without arguments or a body without
\* constructor raises InstructionValidationError.
C31_ImageBody == [][C31_Step]_vars

\* the instruction BABA IS YOU after the constructor of the image X was
\* dropped without an error
C31_Witness ==
    /\ builder.state = "Built"
    /\ status = "running"
    /\ builder.statements =
          <<IsNoun(x, NounImage), IsNoun(x, NounLevel), HasNoun(x, keke),
            IsProperty(x, "Done"), IsProperty(baba, "You"), IsProperty(x, "Done")>>
    /\ builder.result = Some(<<ImageI(FALSE, x, <<>>,
                                      LevelI(FALSE, x, <<keke>>, <<>>))>>)

-----------------------------------------------------------------------------
\* The caller of parse_inner after the scope has returned

\* the number of statements of the stream that the innermost call and the
\* calls before it have consumed
Consumed(frame) == frame.base + frame.pos

\* a call of parse_inner for a scope returns to its caller in this step
Returns ==
    /\ status = "running"
    /\ status' = "running"
    /\ builder.state = "Building"
    /\ builder'.state = "Building"
    /\ Len(builder'.frames) = Len(builder.frames) - 1

\* C34: when a call of parse_inner for a TELE, LEVEL or IMAGE scope returns,
\* its caller goes on with the statement after the last one that the inner
\* call has consumed, so that no statement is skipped and none is translated
\* a second time in the outer scope.
C34_Resume ==
    [][Returns =>
          Consumed(builder'.frames[Len(builder'.frames)]) =
              IF AstIndex <= Len(builder.statements)
              THEN AstIndex
              ELSE Len(builder.statements)]_vars

\* X IS YOU after X IS FLOAT in the scope of X, which the stream leaves open,
\* was translated in that scope and once more in program scope
C34_Witness ==
    /\ builder.state = "Built"
    /\ status = "running"
    /\ builder.statements =
          <<IsProperty(x, "Tele"), IsProperty(x, "Float"), IsProperty(x, "You")>>
    /\ builder.result = Some(<<TeleI(x, <<InitYou(x, TRUE)>>), InitYou(x, FALSE)>>)

-----------------------------------------------------------------------------
\* A lone slash

\* a byte is read after a first slash
SlashRead ==
    /\ status = "running"
    /\ lexer.state = "MaybeComment"
    /\ lexer'.state # "EOF"
    /\ Len(lexer'.buffer) = Len(lexer.buffer) + 1

C35_Step ==
    SlashRead =>
        LET c == to_lowercase(lexer'.buffer[Len(lexer'.buffer)])
        IN  IF is_word(c)
            THEN /\ lexer'.state = "Word"
                 /\ lexer'.word_start = Len(lexer.buffer)
            ELSE c # "/" =>
                 /\ lexer'.state = "Separator"
                 /\ lexer'.word_start = Len(lexer'.buffer)

\* C35: after a slash, a byte that is neither a slash nor a word character
\* ends the comment attempt and leaves the lexer in Separator, so that a later
\* lone slash opens no comment; a word character right after the slash begins
\* a word at that character.
C35_LoneSlash == [][C35_Step]_vars

\* the word o after two slashes on two lines was lexed as a comment
C35_Witness ==
    /\ lexer.state = "EOF"
    /\ status = "running"
    /\ lexer.buffer = <<"/", "\n", "/", "o">>
    /\ lexer.out = <<>>

-----------------------------------------------------------------------------
\* Intermediate instructions

Intermediate ==
    {"NoOp", "PartialTele", "PartialLevel", "PartialImage", "PartialFloat"}

\* the instruction and the instructions in it, at any depth, are not
\* intermediate ones
RECURSIVE Completed(_)
Completed(instruction) ==
    /\ instruction.op \notin Intermediate
    /\ CASE instruction.op \in {"Tele", "Level"} ->
                \A k \in 1..Len(instruction.instructions) :
                    Completed(instruction.instructions[k])
         [] instruction.op = "Image" -> Completed(instruction.constructor)
         [] OTHER -> TRUE

\* C36: the instructions that parse returns, and the instructions collected
\* by every call of parse_inner on the way, hold no NoOp and no PartialTele,
\* PartialLevel, PartialImage or PartialFloat at any depth.
C36_Completed ==
    /\ builder.state = "Built" =>
          \A k \in 1..Len(builder.result.v) : Completed(builder.result.v[k])
    /\ builder.state = "Building" =>
          \A f \in 1..Len(builder.frames) :
              \A k \in 1..Len(builder.frames[f].out) :
                  Completed(builder.frames[f].out[k])

\* X IS NOT YOU and, in the scope of X, X IS NOT TELE were validated to NoOp
\* and the tree holds the Tele only
C36_Witness ==
    /\ builder.state = "Built"
    /\ status = "running"
    /\ builder.statements =
          <<IsNotProperty(x, "You"), IsProperty(x, "Tele"),
            IsNotProperty(x, "Tele"), IsProperty(x, "Done")>>
    /\ builder.result = Some(<<TeleI(x, <<>>)>>)

-----------------------------------------------------------------------------
\* generic_init

\* the instruction types that validate passes to generic_init, with the
\* property they are for, the instruction they build and their float flag
InitTypes ==
    {[type |-> "InitYou", prop |-> "You", op |-> "InitYou", float |-> FALSE],
     [type |-> "InitYou2", prop |-> "You2", op |-> "InitYou2", float |-> FALSE],
     [type |-> "InitGroup", prop |-> "Group", op |-> "InitGroup", float |-> FALSE],
     [type |-> "FloatYou", prop |-> "You", op |-> "InitYou", float |-> TRUE],
     [type |-> "FloatYou2", prop |-> "You2", op |-> "InitYou2", float |-> TRUE],
     [type |-> "FloatGroup", prop |-> "Group", op |-> "InitGroup", float |-> TRUE],
     [type |-> "LevelPower", prop |-> "Power", op |-> "Power", float |-> FALSE],
     [type |-> "FloatPower", prop |-> "Power", op |-> "Power", float |-> TRUE]}

\* what the instruction type gives for the statement is what the rule says
Initialized(init, statement) ==
    LET instruction == validate(init.type, statement)
    IN  IF statement.subject.kind # "Identifier"
        THEN instruction = Thrown("InstructionValidationError")
        ELSE IF statement.cond_type.t = "Some" \/ statement.prefix.t = "Some"
        THEN instruction = Thrown("InstructionValidationError")
        ELSE IF statement.action_sign
        THEN instruction = NoOp
        ELSE instruction = [op |-> init.op, id |-> statement.subject.id,
                            float |-> init.float]

\* C37: for every statement of the stream that names YOU, YOU2, GROUP or
\* POWER, each instruction type of that property that validate passes to
\* generic_init raises InstructionValidationError when the subject is not an
\* identifier or the statement has a condition or a prefix, gives the no-op
\* when the action is negated, and the initializer of the subject otherwise.
C37_Init ==
    (status = "running" /\ builder.state = "Building") =>
        \A k \in 1..Len(builder.statements) :
            \A init \in InitTypes :
                IsTarget(builder.statements[k], TargetProperty([kind |-> init.prop]))
                    => Initialized(init, builder.statements[k])

\* X IS NOT POWER was translated to the call of X
C37_Witness ==
    /\ builder.state = "Building"
    /\ status = "running"
    /\ builder.statements = <<IsNotProperty(x, "Power"), IsNotProperty(x, "Group")>>
    /\ AstTop.pos = 2
    /\ AstTop.out = <<SimplePower(x, FALSE)>>

-----------------------------------------------------------------------------
\* Statements are parsed one by one

\* the token at k is the subject of a statement: a noun at the start of the
\* stream or right after a target
SubjectAt(tokens, k) ==
    /\ tokens[k].token = "Noun"
    /\ k = 1 \/ tokens[k - 1].token \in {"Noun", "Property"}

\* where the text of the last statement of the tokens begins
StatementStart(tokens) ==
    CHOOSE k \in 1..Len(tokens) :
        /\ SubjectAt(tokens, k)
        /\ \A j \in (k + 1)..Len(tokens) : ~SubjectAt(tokens, j)

NoConditional(tokens) ==
    \A j \in StatementStart(tokens)..Len(tokens) : tokens[j].token # "Conditional"

\* the statements pushed in this step, whose text has no conditional, have
\* no condition
C38_Step ==
    (/\ parser.state # "Off"
     /\ Len(parser'.out) > Len(parser.out)
     /\ NoConditional(parser.tokens))
        => \A k \in (Len(parser.out) + 1)..Len(parser'.out) :
              /\ parser'.out[k].major_cond_type = None
              /\ parser'.out[k].major_cond_targets = <<>>
              /\ parser'.out[k].major_cond_sign = Some(FALSE)
              /\ parser'.out[k].minor_cond_type = None
              /\ parser'.out[k].minor_cond_target = None

\* C38: a statement whose text has no conditional is pushed with no condition
\* type, no condition targets and the condition sign false, and when its
\* subject has been read the action sign is false, whatever the statements
\* before it in the token stream were.
C38_Independent ==
    /\ [][C38_Step]_vars
    /\ [](parser.state = "Subject" => ~parser.action_sign)

\* KEKE HAS BABA after BABA ON KEKE HAS BABA was pushed with the condition ON
C38_Witness ==
    /\ parser.state # "Off"
    /\ parser.eof
    /\ status = "running"
    /\ parser.tokens =
          <<TokenNoun(NounIdentifier(3)), Token("Conditional", "On"),
            TokenNoun(NounIdentifier(4)), Token("Verb", "Has"),
            TokenNoun(NounIdentifier(3)),
            TokenNoun(NounIdentifier(4)), Token("Verb", "Has"),
            TokenNoun(NounIdentifier(3))>>
    /\ Len(parser.out) = 2
    /\ parser.out[2].subject = NounIdentifier(4)
    /\ parser.out[2].major_cond_type = Some([kind |-> "On"])


-----------------------------------------------------------------------------
(* C32: WORD on a Group *)

\* the instruction about to execute is this operation on a Group
GroupAt(op) ==
    /\ Running
    /\ HasInstr
    /\ Instr.op = op
    /\ find_ref(Instr.id, Cur.locals, Cur.globals).t = "Group"

\* the Group the instruction names, before and after its step
GroupBefore == find_ref(Instr.id, Cur.locals, Cur.globals)
GroupAfter ==
    find_ref(Instr.id, stores'[Len(stores')].locals, stores'[Len(stores')].globals)

\* the You objects of the bytes of a line, in input order
LineObjects(buffer) == [k \in 1..Len(buffer) |-> You(buffer[k], 0, 0)]

C32_Step ==
    GroupAt("Word") =>
        \E buffer \in Lines :
            GroupAfter = Group(GroupBefore.index + Len(buffer),
                               GroupBefore.data \o LineObjects(buffer))

\* C32: `X IS WORD` on a Group with an input line of n bytes appends n fresh
\* You objects (x = the byte, y = 0, dir = 0) in input order after the
\* existing elements and advances the index of the group by n.
C32_Word == [][C32_Step]_vars

\* `g is word` has read the line "a\n": g holds the two You objects and its
\* index is still 0
C32_Witness ==
    /\ scenario = -4 /\ status = "running" /\ stack # <<>>
    /\ Top.body = <<Word(g)>> /\ Top.pc = 2
    /\ Get(Cur.locals, g) = Group(0, <<You(97, 0, 0), You(10, 0, 0)>>)


-----------------------------------------------------------------------------
(* C33: the cursor of a Group *)

\* the sequence with the elements at the positions i and j exchanged
Exchange(seq, i, j) == [seq EXCEPT ![i] = seq[j], ![j] = seq[i]]

\* a Shift of a Group of n >= 1 elements moves the index by one modulo n
C33_Shift ==
    (GroupAt("Shift") /\ Len(GroupBefore.data) >= 1) =>
        LET n == Len(GroupBefore.data)
        IN  /\ status' = "running"
            /\ GroupAfter.index \in 0..(n - 1)
            /\ GroupAfter.index = IF Instr.not THEN (GroupBefore.index - 1) % n
                                  ELSE (GroupBefore.index + 1) % n

\* a Swap of a Group of n >= 1 elements exchanges the element under the
\* index and the last one
C33_Swap ==
    (GroupAt("Swap") /\ Len(GroupBefore.data) >= 1) =>
        LET n == Len(GroupBefore.data)
        IN  /\ status' = "running"
            /\ InBounds(GroupBefore.index, n)
            /\ GroupAfter.data = Exchange(GroupBefore.data, GroupBefore.index + 1, n)

\* C33: Shift rotates the cursor of a Group of n >= 1 elements with
\* wrap-around (forward (index + 1) mod n, negated (index - 1) mod n), so
\* after any sequence of HAS, SINK, MAKE, SWAP and SHIFT that leaves the Group
\* non-empty its index after a Shift lies in 0..n-1 and Swap always exchanges
\* two existing elements.
C33_Cursor == [][C33_Shift /\ C33_Swap]_vars

\* g has baba  g has baba  g is shift  g is sink (or g make keke)
\* g is shift: g has one element and its index is 2
C33_Witness ==
    /\ scenario = -4 /\ drawn = 5 /\ status = "running" /\ stack # <<>>
    /\ Top.body = <<Shift(g, FALSE)>> /\ Top.pc = 2
    /\ Get(Cur.locals, g) = Group(2, <<You(0, 0, 0)>>)


-----------------------------------------------------------------------------
(* C39: POWER never unwinds its caller *)

\* the position on the stack of the body of the innermost call, 0 outside
\* of every call
CallBase ==
    LET calls == { k \in 1..Len(stack) : stack[k].kind = "call" }
    IN  IF calls = {} THEN 0 ELSE CHOOSE k \in calls : \A j \in calls : j <= k

\* a call returns, with whatever return scope its body ended: the calling
\* body goes on with the instruction after the call and nothing is pending
C39_Return ==
    (Returning /\ ret.from.kind = "call") =>
        /\ status' = "running"
        /\ ret' = NoRet
        /\ stack' = [stack EXCEPT ![Len(stack)].pc = @ + 1]
        /\ Len(stores') = Len(stores) - 1

\* while a callee runs, the bodies below the body of the call stay where
\* they are: no step inside the callee ends or moves one of them
C39_Callee ==
    (status = "running" /\ CallBase > 0 /\ status' = "running") =>
        SubSeq(stack', 1, CallBase - 1) = SubSeq(stack, 1, CallBase - 1)

\* C39: Power never unwinds its caller: exec_simple for Power(id) returns the
\* scope NO_BREAK and no value to the enclosing body, so a FearTele or MAKE
\* executed inside the callee (even one naming a Tele that encloses the call
\* site) ends only the callee, and the caller continues with the instruction
\* after the call.
C39_PowerReturns == [][C39_Return /\ C39_Callee]_vars

\* the call `fn is power` inside the Tele t has returned from the body of
\* LevelFear, which ended with `baba fear t`: the Tele t is at its next
\* instruction
C39_Witness ==
    /\ scenario = 0 /\ Running /\ Len(stores) = 1
    /\ Top.kind = "tele" /\ Top.scope = t
    /\ Top.body = TeleCall.instructions /\ Top.pc = 2
    /\ find_ref(baba, Cur.locals, Cur.globals).t = "You"
    /\ find_ref(fn, Cur.locals, Cur.globals).t = "Level"
    /\ find_ref(fn, Cur.locals, Cur.globals).callback
           = level_object(LevelFear).callback


-----------------------------------------------------------------------------
(* C40: the attributes of an Image *)

\* the attribute names the IMAGE definitions of this class declare
Declared(class) ==
    UNION { { image.attributes[k] : k \in 1..Len(image.attributes) } :
              image \in { i \in ImagePool : i.identifier = class } }

\* the class of an Image or of an ImageInstance
ClassOf(obj) == IF obj.t = "Image" THEN obj.identifier ELSE obj.class

\* the Images and ImageInstances bound in a map
ImagesOf(m) == { m[id] : id \in { i \in DOMAIN m : m[i].t \in {"Image", "ImageInstance"} } }

\* every Image and ImageInstance of every call frame has exactly the
\* declared attribute names as keys
C40_Keys ==
    \A k \in 1..Len(stores) :
        \A obj \in ImagesOf(stores[k].locals) \cup ImagesOf(stores[k].globals) :
            DOMAIN obj.attributes = Declared(ClassOf(obj))

\* MAKE on an Image or ImageInstance finds the slot of the attribute pointer:
\* it binds the target to the value of the slot, or to nothing when the slot
\* is unset, and never fails
C40_Make ==
    (Running /\ HasInstr /\ Instr.op = "MakeValue"
             /\ find_ref(Instr.id, Cur.locals, Cur.globals).t \in {"Image", "ImageInstance"}) =>
        LET obj == find_ref(Instr.id, Cur.locals, Cur.globals)
        IN  /\ status' = "running"
            /\ obj.attribute_pointer \in DOMAIN obj.attributes
            /\ obj.attributes[obj.attribute_pointer] # None =>
                   Get(stores'[Len(stores')].locals, Instr.target)
                       = obj.attributes[obj.attribute_pointer]

\* C40: for every Image and ImageInstance in any reachable store, the key set
\* of its attributes map equals the attribute names declared in the IMAGE
\* definition: FOLLOW and EAT never add or remove a key, and MAKE on an
\* Image/ImageInstance always finds a slot for the current attribute pointer
\* (FOLLOW a; EAT v; MAKE d leaves d == v).
C40_Attributes == []C40_Keys /\ [][C40_Make]_vars

\* `cls eat baba` without a FOLLOW before it: the attributes of cls have the
\* key 0 next to the declared v
C40_Witness ==
    /\ scenario = -6 /\ status = "running" /\ stack # <<>>
    /\ Top.body = <<EatValue(cls, baba)>> /\ Top.pc = 2
    /\ Get(Cur.locals, cls) # None
    /\ DOMAIN Get(Cur.locals, cls).attributes = {0, v}
    /\ Get(Cur.locals, cls).attributes[0] = You(0, 0, 0)

====
